---- MODULE Spec2Model ----
(***************************************************************************)
(* A model of memory-brain: the Brain orchestrator (src/src/lib.rs), its   *)
(* working memory (working.rs), the three persisted tiers (episodic.rs,    *)
(* semantic.rs, procedural.rs over storage.rs), the keyword index          *)
(* (inverted_index.rs), the bloom filter (bloom_filter.rs) and the         *)
(* forgetting curve (forgetting.rs).                                       *)
(*                                                                         *)
(* Conventions.                                                            *)
(*  - A text (Rust String / &str) is a sequence of one-character strings.  *)
(*  - Option<String> is a sequence of texts: <<>> is None, <<t>> Some(t).  *)
(*  - f32 quantities (strength, decay factors, similarities) are fixed     *)
(*    point integers in thousandths: 1000 stands for 1.0.                  *)
(*  - Timestamps are whole days on the clock `now`; an hour count is 24    *)
(*    times a day count.                                                   *)
(*  - Uuid::new_v4() is the next unused natural number.                    *)
(***************************************************************************)
EXTENDS Integers, Sequences, FiniteSets, TLC

VARIABLES
    capacity,       \* WorkingMemory.capacity
    working,        \* WorkingMemory.items (VecDeque<MemoryItem>), front first
    episodic,       \* rows of table memory_brain.episodic (set of MemoryItem)
    semantic,       \* rows of table memory_brain.semantic
    procedural,     \* rows of table memory_brain.procedural
    keyword_index,  \* InvertedIndex.index: set of <<token, id>> postings
    doc_keywords,   \* InvertedIndex.doc_keywords: set of <<id, token>>
    bloom_bits,     \* BloomFilter.bits: the set of positions that are true
    bloom_count,    \* BloomFilter.count
    now,            \* Utc::now(), in days
    next_id,        \* the next fresh Uuid
    table,          \* a Storage on its own: the rows its table returns
    durable,        \* a Storage on its own: the rows that have been flushed
    counters,       \* CountingBloomFilter.counters: position -> count, zeros left out
    cache,          \* CachedEmbedder.cache: LruCache, entries <<key, vector>>, most recent first
    cache_hits,     \* CachedEmbedder.hits
    cache_misses,   \* CachedEmbedder.misses
    hnsw,           \* HnswIndex.hnsw: the vectors inserted into the graph, index 0 first
    id_map,         \* HnswIndex.id_map: set of <<index, id>>
    uuid_to_idx,    \* HnswIndex.uuid_to_idx: set of <<id, index>>
    next_idx,       \* HnswIndex.next_idx
    dimension,      \* HnswIndex.dimension
    pc,             \* the call each thread is in on the shared HnswIndex and the locks it has taken
    last            \* the last operation, its arguments and what it returned

vars == <<pc, dimension, next_idx, uuid_to_idx, id_map, hnsw, cache_misses, cache_hits, cache, counters, capacity, working, episodic, semantic, procedural, keyword_index,
          doc_keywords, bloom_bits, bloom_count, now, next_id, table, durable,
          last>>

----------------------------------------------------------------------------
(* Bounds of the model.                                                    *)

\* WorkingMemory::new(capacity) is explored for capacity in 0..MaxCapacity.
MaxCapacity == 2
\* A Brain creates at most MaxIds records (ids 1..MaxIds).
MaxIds == 2
\* A WorkingMemory on its own is pushed at most MaxPushes times.
MaxPushes == 3
\* access_count is capped: no operation raises it above MaxAccess.
MaxAccess == 3
\* The clock advances in steps of DayStep days, up to MaxSteps steps.
MaxSteps == 1
\* recall is called with limit in 0..MaxLimit.
MaxLimit == 2
\* A BloomFilter on its own is added to at most MaxAdds times between clears.
MaxAdds == 3

\* A CountingBloomFilter on its own: one item is added without a bound (its
\* counters saturate), a second item while its counters are below MaxMixedAdds.
MaxMixedAdds == 2

\* A CachedEmbedder on its own is created with a cache size in
\* 1..MaxCacheSize, embed_batch is called with at most MaxBatch texts, and no
\* call is made once hits + misses has reached MaxLookups.
MaxCacheSize == 2
MaxBatch == 3
MaxLookups == 4

\* An HnswIndex on its own is created with a dimension in 1..MaxDimension,
\* holds at most MaxPoints vectors in its graph between clears, and is
\* searched with k in 0..MaxK.
MaxDimension == 2
MaxPoints == 3
MaxK == 2

\* NumThreads threads call into one shared HnswIndex.
NumThreads == 2

(* Program constants.                                                      *)
WorkingCapacity == 7
\* the limit update_strength and rebuild_indexes pass to Storage::search
SearchAll == 100000
DayStep == 30

----------------------------------------------------------------------------
(* Characters and texts.                                                   *)

LowerLetters ==
    <<"a","b","c","d","e","f","g","h","i","j","k","l","m",
      "n","o","p","q","r","s","t","u","v","w","x","y","z">>
UpperLetters ==
    <<"A","B","C","D","E","F","G","H","I","J","K","L","M",
      "N","O","P","Q","R","S","T","U","V","W","X","Y","Z">>
DigitChars == <<"0","1","2","3","4","5","6","7","8","9">>

Range(s) == { s[i] : i \in DOMAIN s }

IndexOf(c, s) == CHOOSE i \in DOMAIN s : s[i] = c

\* char::is_alphanumeric, on the characters of the model
AlphanumericChars ==
    Range(LowerLetters) \cup Range(UpperLetters) \cup Range(DigitChars)
IsAlphanumeric(c) == c \in AlphanumericChars

\* char::is_whitespace
IsWhitespace(c) == c = " "

\* str::to_lowercase, one character
LowerOf ==
    [c \in Range(UpperLetters) |-> LowerLetters[IndexOf(c, UpperLetters)]]
LowerChar(c) == IF c \in DOMAIN LowerOf THEN LowerOf[c] ELSE c

\* str::to_lowercase
ToLowercase(t) == [i \in DOMAIN t |-> LowerChar(t[i])]

\* str::contains(&str): needle occurs in hay as a contiguous substring
StrContains(hay, needle) ==
    \E i \in 1..(Len(hay) - Len(needle) + 1) :
        SubSeq(hay, i, i + Len(needle) - 1) = needle

\* str::split(pred).collect(): the maximal runs between separator characters,
\* empty runs included; sep[i] tells whether t[i] is a separator
RECURSIVE SplitRuns(_, _, _)
SplitRuns(t, sep, cur) ==
    IF t = <<>> THEN <<cur>>
    ELSE IF Head(sep) THEN <<cur>> \o SplitRuns(Tail(t), Tail(sep), <<>>)
    ELSE SplitRuns(Tail(t), Tail(sep), Append(cur, Head(t)))

\* str::split_whitespace(): the non-empty runs of non-whitespace characters
SplitWhitespace(t) ==
    LET nonEmpty(w) == w # <<>>
    IN  SelectSeq(SplitRuns(t, [i \in DOMAIN t |-> IsWhitespace(t[i])], <<>>),
                  nonEmpty)

\* str::trim_matches(|c| !c.is_alphanumeric())
RECURSIVE TrimStart(_)
TrimStart(w) ==
    IF w = <<>> \/ IsAlphanumeric(Head(w)) THEN w ELSE TrimStart(Tail(w))
RECURSIVE TrimEnd(_)
TrimEnd(w) ==
    IF w = <<>> \/ IsAlphanumeric(w[Len(w)]) THEN w
    ELSE TrimEnd(SubSeq(w, 1, Len(w) - 1))
TrimNonAlphanumeric(w) == TrimEnd(TrimStart(w))

Min(a, b) == IF a < b THEN a ELSE b
Max(a, b) == IF a > b THEN a ELSE b

----------------------------------------------------------------------------
(* MemoryItem (types.rs).                                                  *)

MemoryTypes == {"Working", "Episodic", "Semantic", "Procedural"}
Emotions == {"Neutral", "Positive", "Negative", "Surprise"}

\* `last` before any operation
NoOp == [op |-> "none"]

\* MemoryItem::new(content, context)
NewItem(id, content, context, t) ==
    [id |-> id, content |-> content, context |-> context,
     memory_type |-> "Working", emotion |-> "Neutral",
     created_at |-> t, last_accessed |-> t,
     access_count |-> 1, strength |-> 1000, associations |-> <<>>]

\* MemoryItem::access
Access(item, t) ==
    [item EXCEPT !.last_accessed = t,
                 !.access_count = @ + 1,
                 !.strength = Min(@ + 100, 1000)]

\* MemoryItem::decay
Decay(item, factor) == [item EXCEPT !.strength = (@ * factor) \div 1000]

\* MemoryItem::is_forgotten
IsForgotten(item) == item.strength < 100

\* MemoryItem::associate
Associate(item, other_id) ==
    IF other_id \in Range(item.associations) THEN item
    ELSE [item EXCEPT !.associations = Append(@, other_id)]

\* MemoryItem::with_emotion
WithEmotion(item, emotion) ==
    [item EXCEPT !.emotion = emotion,
                 !.strength = IF emotion # "Neutral"
                              THEN Min((@ * 1500) \div 1000, 1000) ELSE @]

----------------------------------------------------------------------------
(* WorkingMemory (working.rs).                                             *)

\* a push that never evicts
PushItemsNoEvict(items, cap, item) ==
    Append(items, [item EXCEPT !.memory_type = "Working"])

\* WorkingMemory::push: the new deque
PushItems(items, cap, item) ==
    LET kept == IF Len(items) >= cap /\ items # <<>> THEN Tail(items) ELSE items
    IN  Append(kept, [item EXCEPT !.memory_type = "Working"])

\* WorkingMemory::push: the returned Option<MemoryItem>
PushEvicted(items, cap) ==
    IF Len(items) >= cap /\ items # <<>> THEN <<Head(items)>> ELSE <<>>

\* the filter of WorkingMemory::search and Storage::search
MatchesQuery(item, query) ==
    \/ StrContains(ToLowercase(item.content), ToLowercase(query))
    \/ \E c \in Range(item.context) :
           StrContains(ToLowercase(c), ToLowercase(query))

\* a search that returns every item held
WorkingSearchAll(items, query) == items

\* WorkingMemory::search
WorkingSearch(items, query) ==
    LET hit(item) == MatchesQuery(item, query)
    IN  SelectSeq(items, hit)

\* WorkingMemory::get_important (importance_threshold = 0.7)
GetImportant(items) ==
    LET important(item) == item.strength >= 700
    IN  SelectSeq(items, important)

\* WorkingMemory::rehearse
RehearseItems(items, content, t) ==
    [i \in DOMAIN items |->
        IF StrContains(items[i].content, content) THEN Access(items[i], t)
        ELSE items[i]]

----------------------------------------------------------------------------
(* Sequences: stable sorting, truncation, orders of a set.                 *)

\* Vec::truncate
Truncate(s, n) == IF Len(s) <= n THEN s ELSE SubSeq(s, 1, n)

\* one step of a stable descending sort over <<key, value>> pairs: p goes
\* behind every pair whose key is not smaller
RECURSIVE InsertDesc(_, _)
InsertDesc(sorted, p) ==
    IF sorted = <<>> THEN <<p>>
    ELSE IF Head(sorted)[1] >= p[1] THEN <<Head(sorted)>> \o InsertDesc(Tail(sorted), p)
    ELSE <<p>> \o sorted

\* slice::sort_by(|a, b| b.key.partial_cmp(&a.key)): stable, descending
RECURSIVE SortPairsDesc(_)
SortPairsDesc(pairs) ==
    IF pairs = <<>> THEN <<>>
    ELSE InsertDesc(SortPairsDesc(SubSeq(pairs, 1, Len(pairs) - 1)), pairs[Len(pairs)])

\* the orders in which the elements of a set can be iterated
RECURSIVE Orders(_)
Orders(S) ==
    IF S = {} THEN {<<>>}
    ELSE UNION { { <<x>> \o o : o \in Orders(S \ {x}) } : x \in S }

----------------------------------------------------------------------------
(* InvertedIndex (inverted_index.rs).                                      *)

\* tokenize
Tokenize(text) ==
    LET lower == ToLowercase(text)
        sep == [i \in DOMAIN lower |->
                   ~IsAlphanumeric(lower[i]) /\ lower[i] # "_"]
        longEnough(w) == Len(w) >= 2
    IN  SelectSeq(SplitRuns(lower, sep, <<>>), longEnough)

\* InvertedIndex::add: the new `index`
IndexAdd(index, id, content) ==
    index \cup { <<tok, id>> : tok \in Range(Tokenize(content)) }

\* InvertedIndex::add: the new `doc_keywords`
DocKeywordsAdd(docs, id, content) ==
    IF Tokenize(content) = <<>> THEN docs
    ELSE { d \in docs : d[1] # id }
            \cup { <<id, tok>> : tok \in Range(Tokenize(content)) }

\* InvertedIndex::add_batch over items <<id, content>>, every content with a
\* token: the new `index` and `doc_keywords` (a content without a token
\* would record an empty keyword set for its id, which a set of <<id, token>>
\* cannot hold)
RECURSIVE IndexAddBatch(_, _)
IndexAddBatch(index, items) ==
    IF items = <<>> THEN index
    ELSE IndexAddBatch(IndexAdd(index, Head(items)[1], Head(items)[2]),
                       Tail(items))
RECURSIVE DocKeywordsAddBatch(_, _)
DocKeywordsAddBatch(docs, items) ==
    IF items = <<>> THEN docs
    ELSE DocKeywordsAddBatch(
             { d \in docs : d[1] # Head(items)[1] }
                 \cup { <<Head(items)[1], tok>> :
                            tok \in Range(Tokenize(Head(items)[2])) },
             Tail(items))

\* InvertedIndex::remove: the new `index`; the keywords of the document are
\* taken from doc_keywords, a keyword left without ids loses its entry
IndexRemove(index, docs, id) ==
    { p \in index : ~(p[2] = id /\ <<id, p[1]>> \in docs) }

\* InvertedIndex::remove: the new `doc_keywords`
DocKeywordsRemove(docs, id) == { d \in docs : d[1] # id }

\* InvertedIndex::remove: the returned bool
IndexRemoved(docs, id) == \E d \in docs : d[1] = id

\* the id set index.get(token)
Postings(index, tok) == { p[2] : p \in { q \in index : q[1] = tok } }

\* InvertedIndex::search_and
SearchAnd(index, query) ==
    LET tokens == Tokenize(query)
    IN  IF tokens = <<>> THEN {}
        ELSE { id \in { p[2] : p \in index } :
                   \A i \in DOMAIN tokens : id \in Postings(index, tokens[i]) }

\* InvertedIndex::search_ranked: the score map
RankScore(index, query, id) ==
    LET tokens == Tokenize(query)
    IN  Cardinality({ i \in DOMAIN tokens : id \in Postings(index, tokens[i]) })

\* the documents search_ranked gives a score
RankedIds(index, query) ==
    { id \in { p[2] : p \in index } : RankScore(index, query, id) >= 1 }

\* a search_ranked that neither sorts nor truncates
SearchRankedUnsorted(index, query, limit, order) ==
    [i \in DOMAIN order |-> <<order[i], RankScore(index, query, order[i])>>]

\* InvertedIndex::search_ranked; `order` is the order in which the HashMap of
\* scores is iterated, an order of RankedIds
SearchRanked(index, query, limit, order) ==
    LET pairs == [i \in DOMAIN order |->
                     <<RankScore(index, query, order[i]), order[i]>>]
        sorted == SortPairsDesc(pairs)
    IN  Truncate([i \in DOMAIN sorted |-> <<sorted[i][2], sorted[i][1]>>], limit)

----------------------------------------------------------------------------
(* BloomFilter (bloom_filter.rs). BloomFilter::new(10000, 0.01) computes   *)
(* size = 95851 bits and num_hashes = 7. The two SipHash values of         *)
(* `hashes` are replaced by two polynomial hashes of the characters.       *)

BloomSize == 95851
NumHashes == 7

AllChars == LowerLetters \o UpperLetters \o DigitChars \o <<" ", "-", "_">>
CodeOf == [c \in Range(AllChars) |-> IndexOf(c, AllChars)]
CharCode(c) == CodeOf[c]

RECURSIVE PolyHash(_, _, _)
PolyHash(item, mult, acc) ==
    IF item = <<>> THEN acc
    ELSE PolyHash(Tail(item), mult, (acc * mult + CharCode(Head(item))) % BloomSize)

\* BloomFilter::hashes: h(i) = (h1 + i * h2) % size, i in 0..num_hashes-1
Hashes(item) ==
    LET h1 == PolyHash(item, 131, 7)
        h2 == PolyHash(item, 137, h1 % 1000) + 1
    IN  { (h1 + i * h2) % BloomSize : i \in 0..(NumHashes - 1) }

\* BloomFilter::add: the new bits
BloomAdd(bits, item) == bits \cup Hashes(item)

\* BloomFilter::contains
BloomContains(bits, item) == Hashes(item) \subseteq bits

\* a merge that keeps only the bits both filters have
BloomMergeCommon(bits, other_bits) == bits \cap other_bits

\* BloomFilter::merge, for filters of the same size and hash count: OR
BloomMerge(bits, other_bits) == bits \cup other_bits

\* BloomFilter::add_str: the new bits
BloomAddStr(bits, s) == bits \cup Hashes(ToLowercase(s))

\* BloomFilter::contains_str
BloomContainsStr(bits, s) == Hashes(ToLowercase(s)) \subseteq bits

\* the words lib.rs feeds to the bloom filter for a content: whitespace split,
\* non-alphanumeric ends trimmed, at least 2 long
BloomWords(content) ==
    LET words == SplitWhitespace(content)
        trimmed == [i \in DOMAIN words |-> TrimNonAlphanumeric(words[i])]
        longEnough(w) == Len(w) >= 2
    IN  SelectSeq(trimmed, longEnough)

RECURSIVE BloomAddAll(_, _)
BloomAddAll(bits, words) ==
    IF words = <<>> THEN bits
    ELSE BloomAddAll(BloomAddStr(bits, Head(words)), Tail(words))

----------------------------------------------------------------------------
(* CountingBloomFilter (bloom_filter.rs): a Vec<u8> of counters. The       *)
(* filter is the one of test_counting_bloom, CountingBloomFilter::new(100, *)
(* 0.01), which computes size = 959 and num_hashes = 7.                    *)

CountingSize == 959
CountingNumHashes == 7
\* u8::MAX
U8Max == 255

\* CountingBloomFilter::hashes: the Vec of positions, in order; a position
\* may occur more than once
CountingHashes(item) ==
    LET h1 == PolyHash(item, 131, 7)
        h2 == PolyHash(item, 137, h1 % 1000) + 1
    IN  [i \in 1..CountingNumHashes |-> (h1 + (i - 1) * h2) % CountingSize]

\* counters[pos]
CounterAt(c, pos) == IF pos \in DOMAIN c THEN c[pos] ELSE 0

\* counters[pos] = v
CounterSet(c, pos, v) ==
    LET dom == IF v = 0 THEN DOMAIN c \ {pos} ELSE DOMAIN c \cup {pos}
    IN  [p \in dom |-> IF p = pos THEN v ELSE c[p]]

\* u8::saturating_add(1)
SaturatingAdd(v) == IF v = U8Max THEN U8Max ELSE v + 1

\* u8::saturating_sub(1)
SaturatingSub(v) == IF v = 0 THEN 0 ELSE v - 1

\* CountingBloomFilter::add: the loop over the positions
RECURSIVE CountingAdd(_, _)
CountingAdd(c, hashes) ==
    IF hashes = <<>> THEN c
    ELSE CountingAdd(CounterSet(c, Head(hashes),
                                SaturatingAdd(CounterAt(c, Head(hashes)))),
                     Tail(hashes))

\* CountingBloomFilter::remove: the loop over the positions
RECURSIVE CountingRemove(_, _)
CountingRemove(c, hashes) ==
    IF hashes = <<>> THEN c
    ELSE CountingRemove(CounterSet(c, Head(hashes),
                                   SaturatingSub(CounterAt(c, Head(hashes)))),
                        Tail(hashes))

\* CountingBloomFilter::contains
CountingContains(c, item) ==
    \A i \in 1..CountingNumHashes : CounterAt(c, CountingHashes(item)[i]) > 0

----------------------------------------------------------------------------
(* CachedEmbedder (cache.rs): an LruCache from hash(text) to the vector of *)
(* the inner embedder. The inner embedder is a function of the text; its   *)
(* vector and the DefaultHasher key are replaced by stand-in hashes.       *)

\* CachedEmbedder::hash_text
HashText(text) == PolyHash(text, 131, 7)

\* Embedder::embed of the inner embedder
InnerEmbed(text) == <<Len(text), PolyHash(text, 137, 11)>>

\* LruCache::peek: <<vector>> if the key is held, <<>> if not; the order of
\* the entries is left alone
LruPeek(entries, key) ==
    LET same(e) == e[1] = key
        found == SelectSeq(entries, same)
    IN  IF found = <<>> THEN <<>> ELSE <<found[1][2]>>

\* LruCache::put: the entry becomes the most recent one; when the key is new
\* and the cache is full the least recent entry is dropped
LruPut(c, key, value) ==
    LET other(e) == e[1] # key
        rest == SelectSeq(c.entries, other)
        kept == IF Len(rest) >= c.cap THEN SubSeq(rest, 1, c.cap - 1) ELSE rest
    IN  [c EXCEPT !.entries = <<<<key, value>>>> \o kept]

\* LruCache::get: as peek, and the entry becomes the most recent one
LruGet(c, key) ==
    IF LruPeek(c.entries, key) = <<>> THEN c
    ELSE LruPut(c, key, LruPeek(c.entries, key)[1])

\* embed_batch, first pass: the positions found in the cache
BatchCached(entries, texts) ==
    LET held(i) == LruPeek(entries, HashText(texts[i])) # <<>>
    IN  SelectSeq([i \in DOMAIN texts |-> i], held)

\* embed_batch, first pass: to_compute, the positions not found in the cache
BatchToCompute(entries, texts) ==
    LET missing(i) == LruPeek(entries, HashText(texts[i])) = <<>>
    IN  SelectSeq([i \in DOMAIN texts |-> i], missing)

\* embed_batch: the cache after the puts of the computed vectors
RECURSIVE BatchPutAll(_, _, _)
BatchPutAll(c, texts, to_compute) ==
    IF to_compute = <<>> THEN c
    ELSE BatchPutAll(LruPut(c, HashText(texts[Head(to_compute)]),
                            InnerEmbed(texts[Head(to_compute)])),
                     texts, Tail(to_compute))

\* embed_batch: the vectors returned, by input position
BatchResults(entries, texts) ==
    [i \in DOMAIN texts |->
        IF LruPeek(entries, HashText(texts[i])) # <<>>
        THEN LruPeek(entries, HashText(texts[i]))[1]
        ELSE InnerEmbed(texts[i])]

----------------------------------------------------------------------------
(* HnswIndex (hnsw_index.rs). The graph of the hnsw crate is the sequence  *)
(* of the vectors inserted: Hnsw::insert appends and returns the index of  *)
(* the new vector, counted from 0. Vectors are unit vectors along an axis, *)
(* whose cosine is 1 when they are equal and 0 when they are not.          *)

\* the fields of an HnswIndex that add, remove and clear change
HnswState == [hnsw |-> hnsw, id_map |-> id_map, uuid_to_idx |-> uuid_to_idx]

\* HashMap::contains_key
ContainsKey(map, key) == \E e \in map : e[1] = key

\* HashMap::insert
MapInsert(map, key, value) == { e \in map : e[1] # key } \cup {<<key, value>>}

\* HashMap::remove, the map that is left
MapRemove(map, key) == { e \in map : e[1] # key }

\* HashMap::get of a key that is held
MapGet(map, key) == (CHOOSE e \in map : e[1] = key)[2]

\* HnswIndex::add on the fields st; ok is what is returned (Ok or Err)
HnswAdd(st, dim, id, embedding) ==
    IF Len(embedding) # dim THEN [st |-> st, ok |-> FALSE]
    ELSE IF ContainsKey(st.uuid_to_idx, id) THEN [st |-> st, ok |-> TRUE]
    ELSE LET idx == Len(st.hnsw)
         IN  [st |-> [hnsw |-> Append(st.hnsw, embedding),
                      id_map |-> MapInsert(st.id_map, idx, id),
                      uuid_to_idx |-> MapInsert(st.uuid_to_idx, id, idx)],
              ok |-> TRUE]

\* HnswIndex::add_batch: the fields after the adds and the count returned
RECURSIVE HnswAddBatch(_, _, _)
HnswAddBatch(st, dim, items) ==
    IF items = <<>> THEN [st |-> st, count |-> 0]
    ELSE LET first == HnswAdd(st, dim, Head(items)[1], Head(items)[2])
             rest == HnswAddBatch(first.st, dim, Tail(items))
         IN  [st |-> rest.st,
              count |-> rest.count + (IF first.ok THEN 1 ELSE 0)]

\* a remove that leaves id_map alone
HnswRemoveIdMapKept(idmap, uuids, id) == idmap

\* HnswIndex::remove: the id_map that is left
HnswRemoveIdMap(idmap, uuids, id) ==
    IF ContainsKey(uuids, id) THEN MapRemove(idmap, MapGet(uuids, id))
    ELSE idmap

\* CosineDistance::distance turned back into a similarity by search
Similarity(a, b) == IF a = b THEN 1000 ELSE 0

\* the neighbours nearest may return for k: at most k graph indices, nearest
\* first (ties by index); the search is approximate, so any such choice
NearestChoices(points, query, k) ==
    { found \in SUBSET (0..(Len(points) - 1)) : Cardinality(found) <= k }

\* HnswIndex::search, for the neighbours found: (id, similarity) of those
\* whose index is in id_map
HnswSearchResults(points, idmap, query, found) ==
    LET pairs == { <<Similarity(query, points[idx + 1]) * 10 + (9 - idx), idx>> :
                       idx \in found }
        RECURSIVE Desc(_)
        Desc(S) == IF S = {} THEN <<>>
                   ELSE LET top == CHOOSE p \in S : \A q \in S : q[1] <= p[1]
                        IN  <<top[2]>> \o Desc(S \ {top})
        nearest == Desc(pairs)
        mapped(idx) == ContainsKey(idmap, idx)
        kept == SelectSeq(nearest, mapped)
    IN  [i \in DOMAIN kept |->
            <<MapGet(idmap, kept[i]), Similarity(query, points[kept[i] + 1])>>]

\* HnswIndex::stats().count
HnswCount(idmap) == Cardinality(idmap)

----------------------------------------------------------------------------
(* Storage (storage.rs): one table per tier, a set of rows keyed by id.    *)
(* INSERT of an id that is present overwrites the row.                     *)

\* Uuid::to_string: ids share their leading character and differ in the
\* next one
IdString(id) == <<"a", DigitChars[id + 1]>>

\* Uuid::parse_str
ParseId(text) == IndexOf(text[2], DigitChars) - 1

\* the values Storage::save puts into its INSERT: the id as text, the
\* context or the empty text for None, the Debug names of memory_type and
\* emotion, the timestamps (timestamp_millis, counted here in units of 1000
\* ms); there is no column for the associations
Columns(item) ==
    [id |-> IdString(item.id),
     content |-> item.content,
     context |-> IF item.context = <<>> THEN <<>> ELSE item.context[1],
     memory_type |-> item.memory_type,
     emotion |-> item.emotion,
     created_at |-> item.created_at * 86400,
     last_accessed |-> item.last_accessed * 86400,
     access_count |-> item.access_count,
     strength |-> item.strength]

\* Storage::row_to_memory
RowToMemory(columns) ==
    [id |-> ParseId(columns.id),
     content |-> columns.content,
     context |-> IF columns.context = <<>> THEN <<>> ELSE <<columns.context>>,
     memory_type |-> IF columns.memory_type \in MemoryTypes
                     THEN columns.memory_type ELSE "Semantic",
     emotion |-> IF columns.emotion \in Emotions
                 THEN columns.emotion ELSE "Neutral",
     created_at |-> columns.created_at \div 86400,
     last_accessed |-> columns.last_accessed \div 86400,
     access_count |-> columns.access_count,
     strength |-> columns.strength,
     associations |-> <<>>]

\* a saved item as a later SELECT returns it
Row(item) == RowToMemory(Columns(item))

\* Storage::save / Storage::update
Save(rows, item) == { r \in rows : r.id # item.id } \cup {Row(item)}

\* Storage::delete
Delete(rows, id) == { r \in rows : r.id # id }

\* Storage::search; `scan` is the order in which SELECT * returns the rows
StorageSearch(scan, query, limit) ==
    LET hit(item) == query = <<>> \/ MatchesQuery(item, query)
        hits == SelectSeq(scan, hit)
        pairs == [i \in DOMAIN hits |-> <<hits[i].strength, hits[i]>>]
        sorted == SortPairsDesc(pairs)
    IN  Truncate([i \in DOMAIN sorted |-> sorted[i][2]], limit)

----------------------------------------------------------------------------
(* ForgettingCurve (forgetting.rs) and the scores of types.rs.             *)

\* exp(-k) for k = 0..6, in millionths
ExpNegInt == <<1000000, 367879, 135335, 49787, 18316, 6738, 2479>>

\* the Taylor terms x^n / n! of exp(-x), x in thousandths below 1, in millionths
RECURSIVE TaylorTerm(_, _)
TaylorTerm(x, n) ==
    IF n = 0 THEN 1000000 ELSE (TaylorTerm(x, n - 1) * x) \div (1000 * n)

\* f32::exp(-x), x >= 0 in thousandths, result in thousandths
ExpNeg(x) ==
    LET k == x \div 1000
        f == x % 1000
        frac == TaylorTerm(f, 0) - TaylorTerm(f, 1) + TaylorTerm(f, 2)
                - TaylorTerm(f, 3) + TaylorTerm(f, 4) - TaylorTerm(f, 5)
                + TaylorTerm(f, 6) - TaylorTerm(f, 7) + TaylorTerm(f, 8)
    IN  IF k > 6 THEN 0
        ELSE ((ExpNegInt[k + 1] \div 10) * (frac \div 1000)) \div 100000

\* f32::ln(n) for an access count n >= 1, in thousandths
LnTable == <<0, 693, 1099, 1386, 1609, 1792, 1946, 2079, 2197, 2303>>
Ln(n) == LnTable[n]

\* ForgettingCurve::calculate_decay (base_decay_rate 0.1, min_retention 0.1)
CalculateDecay(item, t) ==
    LET days_since == t - item.last_accessed
        access_stability == Max(Ln(item.access_count), 1000)
        age_stability == IF t - item.created_at > 7 THEN 1200 ELSE 1000
        stability ==
            (((access_stability * item.strength) \div 1000) * age_stability) \div 1000
        retention ==
            IF stability <= 0 THEN 0
            ELSE ExpNeg((days_since * 100000) \div stability)
    IN  Max(retention, 100)

\* MemoryItem::recency_factor
RecencyFactor(item, t) == ExpNeg(((t - item.last_accessed) * 24 * 1000) \div 168)

\* MemoryItem::relevance_score, in millionths
RelevanceScore(item, t) ==
    item.strength * 500 + RecencyFactor(item, t) * 300 + Ln(item.access_count) * 20

----------------------------------------------------------------------------
(* Consolidator (consolidate.rs).                                          *)

W_when == <<"w","h","e","n"," ">>
W_then == <<" ","t","h","e","n"," ">>
W_pattern == <<"p","a","t","t","e","r","n",":">>
W_how_to == <<"h","o","w"," ","t","o"," ">>
W_always == <<"a","l","w","a","y","s"," ">>
W_never == <<"n","e","v","e","r"," ">>
W_is == <<" ","i","s"," ">>
W_are == <<" ","a","r","e"," ">>
W_means == <<" ","m","e","a","n","s"," ">>
W_definition == <<"d","e","f","i","n","i","t","i","o","n",":">>
W_fact == <<"f","a","c","t",":">>

\* a classifier that tries the semantic markers first
ClassifySemanticFirst(item) ==
    LET c == ToLowercase(item.content)
    IN  IF \/ StrContains(c, W_is)
           \/ StrContains(c, W_are)
           \/ StrContains(c, W_means)
           \/ StrContains(c, W_definition)
           \/ StrContains(c, W_fact)
        THEN "Semantic"
        ELSE IF \/ StrContains(c, W_when) /\ StrContains(c, W_then)
                \/ StrContains(c, W_pattern)
                \/ StrContains(c, W_how_to)
                \/ StrContains(c, W_always)
                \/ StrContains(c, W_never)
        THEN "Procedural"
        ELSE "Episodic"

\* Consolidator::classify
Classify(item) ==
    LET c == ToLowercase(item.content)
    IN  IF \/ StrContains(c, W_when) /\ StrContains(c, W_then)
           \/ StrContains(c, W_pattern)
           \/ StrContains(c, W_how_to)
           \/ StrContains(c, W_always)
           \/ StrContains(c, W_never)
        THEN "Procedural"
        ELSE IF \/ StrContains(c, W_is)
                \/ StrContains(c, W_are)
                \/ StrContains(c, W_means)
                \/ StrContains(c, W_definition)
                \/ StrContains(c, W_fact)
        THEN "Semantic"
        ELSE "Episodic"

\* Consolidator::should_consolidate (strength_threshold 0.6, repetition_threshold 3)
ShouldConsolidate(item) ==
    \/ item.emotion # "Neutral"
    \/ item.strength >= 600
    \/ item.access_count >= 3

\* is_stop_word of lib.rs
STOP_WORDS ==
    {<<"t","h","e">>, <<"a">>, <<"a","n">>, <<"i","s">>, <<"a","r","e">>,
     <<"w","a","s">>, <<"w","e","r","e">>, <<"b","e">>,
     <<"b","e","e","n">>, <<"b","e","i","n","g">>, <<"h","a","v","e">>,
     <<"h","a","s">>, <<"h","a","d">>, <<"d","o">>, <<"d","o","e","s">>,
     <<"d","i","d">>, <<"w","i","l","l">>, <<"w","o","u","l","d">>,
     <<"c","o","u","l","d">>, <<"s","h","o","u","l","d">>, <<"m","a","y">>,
     <<"m","i","g","h","t">>, <<"m","u","s","t">>, <<"s","h","a","l","l">>,
     <<"c","a","n">>, <<"n","e","e","d">>, <<"w","h","a","t">>,
     <<"w","h","e","n">>, <<"w","h","e","r","e">>, <<"w","h","i","c","h">>,
     <<"w","h","o">>, <<"w","h","o","m">>, <<"t","h","i","s">>,
     <<"t","h","a","t">>, <<"t","h","e","s","e">>, <<"t","h","o","s","e">>,
     <<"w","i","t","h">>, <<"f","r","o","m">>, <<"a","b","o","u","t">>,
     <<"i","n","t","o">>, <<"t","h","r","o","u","g","h">>,
     <<"d","u","r","i","n","g">>, <<"b","e","f","o","r","e">>,
     <<"a","f","t","e","r">>, <<"a","b","o","v","e">>,
     <<"b","e","l","o","w">>, <<"b","e","t","w","e","e","n">>,
     <<"u","n","d","e","r">>, <<"a","g","a","i","n">>, <<"l","i","k","e">>,
     <<"k","n","o","w">>, <<"t","h","i","n","k">>, <<"w","a","n","t">>,
     <<"t","e","l","l">>, <<"y","o","u","r">>, <<"y","o","u">>,
     <<"f","o","r">>}

IsStopWord(word) == ToLowercase(word) \in STOP_WORDS

----------------------------------------------------------------------------
(* The tiers: EpisodicMemory, SemanticMemory, ProceduralMemory.            *)

\* what a write to the storage does: "ok"; "fail": execute_cql fails, nothing is
\* written, Err; "flush_fail": the row is written, flush_all fails, Err
StoreOutcomes == {"ok", "fail", "flush_fail"}

RowIds(rows) == { r.id : r \in rows }

\* SemanticMemory::find_similar; Option as a sequence
FindSimilar(scan, content) ==
    LET results == StorageSearch(scan, content, 1)
    IN  IF results # <<>>
           /\ \/ StrContains(ToLowercase(content), ToLowercase(results[1].content))
              \/ StrContains(ToLowercase(results[1].content), ToLowercase(content))
        THEN <<results[1]>>
        ELSE <<>>

\* SemanticMemory::store: the rows after a write that reaches the table
SemanticStore(rows, item, scan, t) ==
    LET existing == FindSimilar(scan, item.content)
    IN  IF existing # <<>> THEN Save(rows, Access(existing[1], t))
        ELSE Save(rows, [item EXCEPT !.memory_type = "Semantic"])

\* EpisodicMemory::store
EpisodicStore(rows, item) == Save(rows, [item EXCEPT !.memory_type = "Episodic"])

\* ProceduralMemory::store
ProceduralStore(rows, item) == Save(rows, [item EXCEPT !.memory_type = "Procedural"])

\* the access_count cap of the model: a store that would strengthen an
\* existing semantic row is taken only while that row is below the cap
StoreWithinCap(tier, item, scan) ==
    tier = "Semantic" =>
        \A i \in DOMAIN FindSimilar(scan, item.content) :
            FindSimilar(scan, item.content)[i].access_count < MaxAccess

\* the three tables of the Brain
Tiers == [episodic |-> episodic, semantic |-> semantic, procedural |-> procedural]

\* Brain::consolidate_memory and the store calls of main.rs and server.rs:
\* item goes to the tier named `tier`; "Working" stores nothing. `scan` is
\* the row order of the semantic table.
StoreInto(tiers, tier, item, scan, outcome, t) ==
    [episodic |-> IF tier = "Episodic" /\ outcome # "fail"
                  THEN EpisodicStore(tiers.episodic, item) ELSE tiers.episodic,
     semantic |-> IF tier = "Semantic" /\ outcome # "fail"
                  THEN SemanticStore(tiers.semantic, item, scan, t)
                  ELSE tiers.semantic,
     procedural |-> IF tier = "Procedural" /\ outcome # "fail"
                    THEN ProceduralStore(tiers.procedural, item)
                    ELSE tiers.procedural]

\* the loop of Brain::sleep over working.get_important(): each item goes
\* through consolidate_memory under its own memory_type
RECURSIVE ConsolidateAll(_, _, _, _)
ConsolidateAll(tiers, items, scan, t) ==
    IF items = <<>> THEN tiers
    ELSE ConsolidateAll(
             StoreInto(tiers, Head(items).memory_type, Head(items), scan, "ok", t),
             Tail(items), scan, t)

\* EpisodicMemory::apply_forgetting / SemanticMemory::apply_forgetting, for the
\* rows `done` that the loop gets to before it ends or fails; soften is TRUE
\* for the semantic tier (decay * 0.5 + 0.5)
ForgetFactor(item, t, soften) ==
    IF soften THEN (CalculateDecay(item, t) * 500) \div 1000 + 500
    ELSE CalculateDecay(item, t)

ApplyForgetting(rows, done, t, soften) ==
    { r \in rows : r \notin done }
        \cup { Decay(r, ForgetFactor(r, t, soften)) :
                  r \in { d \in done : ~IsForgotten(Decay(d, ForgetFactor(d, t, soften))) } }

\* the sets of rows an apply_forgetting pass can have dealt with: all of them
\* when it returns Ok; when it returns Err any part of them (get_all failed:
\* none; a delete or update failed: those before it; flush_all failed after an
\* update: those up to it)
ForgetDone(rows, ok) ==
    IF ok THEN {rows}
    ELSE { d \in SUBSET rows :
              d = rows => \E r \in rows : ~IsForgotten(Decay(r, 100)) }

\* a clear that keeps the items
ClearItemsKept(items) == items

\* WorkingMemory::clear
ClearItems(items) == <<>>

----------------------------------------------------------------------------
(* Brain (lib.rs).                                                         *)

\* the cosine similarities of the model
SimValues == {0, 1000}

\* Brain::find_related_memories; scanS and scanE are the row orders of the
\* semantic and the episodic table, sim[id] is the cosine similarity of the
\* embedding to that of row id (0 also stands for a row without embedding)
FindRelatedMemories(scanS, scanE, sim, threshold, limit) ==
    LET near(item) == sim[item.id] > threshold
        fromS == SelectSeq(StorageSearch(scanS, <<>>, 100), near)
        fresh(item) == near(item) /\ \A i \in DOMAIN fromS : fromS[i].id # item.id
        fromE == SelectSeq(StorageSearch(scanE, <<>>, 50), fresh)
        related == fromS \o fromE
        pairs == [i \in DOMAIN related |-> <<sim[related[i].id], related[i].id>>]
    IN  Truncate(SortPairsDesc(pairs), limit)

\* the auto-link loop of Brain::process over the related pairs
RECURSIVE AutoLink(_, _)
AutoLink(item, related) ==
    IF related = <<>> THEN item
    ELSE AutoLink(IF Head(related)[1] > 400
                  THEN Associate(item, Head(related)[2]) ELSE item,
                  Tail(related))

\* Brain::with_embedder on an empty database
Init ==
    /\ capacity = WorkingCapacity
    /\ working = <<>>
    /\ episodic = {} /\ semantic = {} /\ procedural = {}
    /\ keyword_index = {} /\ doc_keywords = {}
    /\ bloom_bits = {} /\ bloom_count = 0
    /\ now = 0
    /\ next_id = 1
    /\ table = {} /\ durable = {}
    /\ pc = [t \in 1..NumThreads |-> [op |-> "idle"]]
    /\ dimension = 1
    /\ next_idx = 0
    /\ uuid_to_idx = {}
    /\ id_map = {}
    /\ hnsw = <<>>
    /\ cache_misses = 0
    /\ cache_hits = 0
    /\ cache = [cap |-> 1, entries |-> <<>>]
    /\ counters = [p \in {} |-> 0]
    /\ last = NoOp

\* Brain::process(input, context); `outcome` is what the persist step does
Process(input, context, outcome) ==
    /\ next_id <= MaxIds
    /\ LET created == NewItem(next_id, input, context, now)
           memory_item == [created EXCEPT !.memory_type = Classify(created)]
       IN  /\ working' = PushItems(working, capacity, memory_item)
           /\ keyword_index' = IndexAdd(keyword_index, memory_item.id, input)
           /\ doc_keywords' = DocKeywordsAdd(doc_keywords, memory_item.id, input)
           /\ bloom_bits' = BloomAddAll(bloom_bits, BloomWords(input))
           /\ bloom_count' = bloom_count + Len(BloomWords(input))
           /\ memory_item.memory_type = "Working" => outcome = "ok"
           /\ \E scan \in Orders(semantic), scanE \in Orders(episodic),
                 sim \in [RowIds(semantic \cup episodic) -> SimValues] :
                  LET linked == AutoLink(memory_item,
                                    FindRelatedMemories(scan, scanE, sim, 400, 5))
                      stored == StoreInto(Tiers, linked.memory_type, linked,
                                          scan, outcome, now)
                  IN  /\ StoreWithinCap(linked.memory_type, linked, scan)
                      /\ episodic' = stored.episodic
                      /\ semantic' = stored.semantic
                      /\ procedural' = stored.procedural
                      /\ last' = [op |-> "process", ok |-> outcome = "ok",
                                  item |-> linked, before |-> semantic]
    /\ next_id' = next_id + 1
    /\ UNCHANGED <<pc, dimension, next_idx, uuid_to_idx, id_map, hnsw, cache_misses, cache_hits, cache, counters, table, durable, capacity, now>>

\* the direct stores of main.rs (store, import) and server.rs: an item built
\* outside the Brain is handed to brain.<tier>.store
StoreDirect(tier, content, emotion, strength, outcome) ==
    /\ next_id <= MaxIds
    /\ LET created == NewItem(next_id, content, <<>>, now)
           item == [created EXCEPT !.memory_type = tier, !.emotion = emotion,
                                   !.strength = strength]
       IN  /\ \E scan \in Orders(semantic) :
                  /\ StoreWithinCap(tier, item, scan)
                  /\ LET stored == StoreInto(Tiers, tier, item, scan, outcome, now)
                     IN  /\ episodic' = stored.episodic
                         /\ semantic' = stored.semantic
                         /\ procedural' = stored.procedural
           /\ last' = [op |-> "store", ok |-> outcome = "ok", item |-> item,
                       before |-> semantic]
    /\ next_id' = next_id + 1
    /\ UNCHANGED <<pc, dimension, next_idx, uuid_to_idx, id_map, hnsw, cache_misses, cache_hits, cache, counters, table, durable, capacity, working, keyword_index, doc_keywords, bloom_bits,
                   bloom_count, now>>

\* time passes
Tick ==
    /\ now < MaxSteps * DayStep
    /\ now' = now + DayStep
    /\ last' = [op |-> "tick"]
    /\ UNCHANGED <<pc, dimension, next_idx, uuid_to_idx, id_map, hnsw, cache_misses, cache_hits, cache, counters, table, durable, capacity, working, episodic, semantic, procedural,
                   keyword_index, doc_keywords, bloom_bits, bloom_count, next_id>>

\* Brain::sleep; okE and okS tell whether the episodic and the semantic
\* apply_forgetting return Ok. Every item of working memory is
\* MemoryType::Working (push sets it), so consolidate_memory stores nothing
\* and cannot fail.
Sleep(okE, okS) ==
    /\ \E scan \in Orders(semantic) :
           LET moved == ConsolidateAll(Tiers, GetImportant(working), scan, now)
           IN  /\ \E doneE \in ForgetDone(moved.episodic, okE) :
                      episodic' = ApplyForgetting(moved.episodic, doneE, now, FALSE)
               /\ IF okE
                  THEN \E doneS \in ForgetDone(moved.semantic, okS) :
                           semantic' = ApplyForgetting(moved.semantic, doneS, now, TRUE)
                  ELSE okS /\ semantic' = moved.semantic
               /\ procedural' = moved.procedural
    /\ working' = IF okE /\ okS THEN ClearItems(working) ELSE working
    /\ last' = [op |-> "sleep", ok |-> okE /\ okS, before |-> working]
    /\ UNCHANGED <<pc, dimension, next_idx, uuid_to_idx, id_map, hnsw, cache_misses, cache_hits, cache, counters, table, durable, capacity, keyword_index, doc_keywords, bloom_bits,
                   bloom_count, now, next_id>>

\* str::starts_with
StartsWith(s, prefix) ==
    Len(prefix) <= Len(s) /\ SubSeq(s, 1, Len(prefix)) = prefix

\* a clamp that lets every value through
Clamp01Unclamped(v) == v

\* f32::clamp(0.0, 1.0), in thousandths
Clamp01(v) == Max(0, Min(v, 1000))

\* the loop of update_strength over one tier: the first item of
\* search("", 100000) whose id starts with the prefix; Option as a sequence.
\* `read` tells whether the search returns Ok.
FirstWithPrefix(scan, id_prefix, read) ==
    LET matches(item) == StartsWith(IdString(item.id), id_prefix)
        hits == SelectSeq(StorageSearch(scan, <<>>, SearchAll), matches)
    IN  IF read /\ hits # <<>> THEN <<hits[1]>> ELSE <<>>

\* Brain::update_strength(id_prefix, new_strength); readE, readS, readP tell
\* whether the search of each table returns Ok, `outcome` is what the write of
\* the store call does (its result is dropped: `let _ =`).
UpdateStrength(id_prefix, new_strength, readE, readS, readP, outcome) ==
    /\ \E scanE \in Orders(episodic), scanS \in Orders(semantic),
          scanP \in Orders(procedural), scan \in Orders(semantic) :
           LET strength == Clamp01(new_strength)
               foundE == FirstWithPrefix(scanE, id_prefix, readE)
               foundS == FirstWithPrefix(scanS, id_prefix, readS)
               foundP == FirstWithPrefix(scanP, id_prefix, readP)
               tier == IF foundE # <<>> THEN "Episodic"
                       ELSE IF foundS # <<>> THEN "Semantic"
                       ELSE IF foundP # <<>> THEN "Procedural"
                       ELSE "Working"
               found == foundE \o foundS \o foundP
           IN  IF found = <<>>
               THEN /\ outcome = "ok"
                    /\ UNCHANGED <<pc, dimension, next_idx, uuid_to_idx, id_map, hnsw, cache_misses, cache_hits, cache, counters, episodic, semantic, procedural>>
                    /\ last' = [op |-> "update_strength", ok |-> FALSE,
                                id_prefix |-> id_prefix,
                                reads |-> readE /\ readS /\ readP]
               ELSE LET item == [found[1] EXCEPT !.strength = strength]
                        stored == StoreInto(Tiers, tier, item, scan, outcome, now)
                    IN  /\ StoreWithinCap(tier, item, scan)
                        /\ episodic' = stored.episodic
                        /\ semantic' = stored.semantic
                        /\ procedural' = stored.procedural
                        /\ last' = [op |-> "update_strength", ok |-> TRUE,
                                    id_prefix |-> id_prefix,
                                    new_strength |-> new_strength,
                                    strength |-> strength,
                                    tier |-> tier, id |-> item.id,
                                    written |-> outcome = "ok",
                                    reads |-> readE /\ readS /\ readP]
    /\ UNCHANGED <<pc, dimension, next_idx, uuid_to_idx, id_map, hnsw, cache_misses, cache_hits, cache, counters, table, durable, capacity, working, keyword_index, doc_keywords, bloom_bits,
                   bloom_count, now, next_id>>

\* Brain::new on the database of an earlier run: working memory, keyword
\* index and bloom filter start empty, the tables are as they were left
Reopen ==
    /\ working' = <<>>
    /\ keyword_index' = {} /\ doc_keywords' = {}
    /\ bloom_bits' = {} /\ bloom_count' = 0
    /\ last' = [op |-> "open"]
    /\ UNCHANGED <<pc, dimension, next_idx, uuid_to_idx, id_map, hnsw, cache_misses, cache_hits, cache, counters, table, durable, capacity, episodic, semantic, procedural, now, next_id>>

\* the loops of Brain::rebuild_indexes over the rows one tier returns
IndexAddRows(index, rows) ==
    index \cup UNION { { <<tok, r.id>> : tok \in Range(Tokenize(r.content)) } : r \in rows }

DocKeywordsAddRows(docs, rows) ==
    { d \in docs : \A r \in rows : Tokenize(r.content) = <<>> \/ r.id # d[1] }
        \cup UNION { { <<r.id, tok>> : tok \in Range(Tokenize(r.content)) } : r \in rows }

BloomAddRows(bits, rows) ==
    bits \cup UNION { BloomAddAll({}, BloomWords(r.content)) : r \in rows }

RECURSIVE BloomWordCount(_)
BloomWordCount(rows) ==
    IF rows = {} THEN 0
    ELSE LET r == CHOOSE x \in rows : TRUE
         IN  Len(BloomWords(r.content)) + BloomWordCount(rows \ {r})

\* Brain::rebuild_indexes; readE, readS, readP tell whether the search of the
\* episodic, semantic and procedural table returns Ok
RebuildIndexes(readE, readS, readP) ==
    LET rows == (IF readE THEN episodic ELSE {})
                    \cup (IF readS THEN semantic ELSE {})
                    \cup (IF readP THEN procedural ELSE {})
    IN  /\ keyword_index' = IndexAddRows({}, rows)
        /\ doc_keywords' = DocKeywordsAddRows({}, rows)
        /\ bloom_bits' = BloomAddRows({}, rows)
        /\ bloom_count' = BloomWordCount(rows)
        /\ last' = [op |-> "rebuild", ok |-> TRUE,
                    reads |-> readE /\ readS /\ readP]
        /\ UNCHANGED <<pc, dimension, next_idx, uuid_to_idx, id_map, hnsw, cache_misses, cache_hits, cache, counters, table, durable, capacity, working, episodic, semantic, procedural, now,
                       next_id>>

\* the keywords of the fallback of Brain::recall, before the bloom pre-check
RecallKeywords(query) ==
    LET words == SplitWhitespace(query)
        trimmed == [i \in DOMAIN words |-> TrimNonAlphanumeric(words[i])]
        kept(w) == Len(w) > 2 /\ ~IsStopWord(w)
    IN  SelectSeq(trimmed, kept)

\* Brain::recall step 2: for each indexed id, the semantic row of that id
RECURSIVE FetchIndexed(_, _)
FetchIndexed(indexed_ids, items) ==
    IF indexed_ids = <<>> THEN <<>>
    ELSE LET same(item) == item.id = Head(indexed_ids)[1]
             hits == SelectSeq(items, same)
         IN  (IF hits # <<>> THEN <<hits[1]>> ELSE <<>>)
                 \o FetchIndexed(Tail(indexed_ids), items)

\* Brain::recall step 5: per keyword the episodic, then the semantic hits
RECURSIVE KeywordHits(_, _, _, _)
KeywordHits(keywords, scanE, scanS, limit) ==
    IF keywords = <<>> THEN <<>>
    ELSE StorageSearch(scanE, Head(keywords), limit)
             \o StorageSearch(scanS, Head(keywords), limit)
             \o KeywordHits(Tail(keywords), scanE, scanS, limit)

\* a pre-check that lets every keyword through
RecallFallbackKeywordsUnscreened(query) == RecallKeywords(query)

\* Brain::recall steps 3 and 4: the keywords of the query that pass the bloom
\* filter pre-check
RecallFallbackKeywords(query) ==
    LET present(k) == BloomContainsStr(bloom_bits, k)
    IN  SelectSeq(RecallKeywords(query), present)

\* Brain::recall: what is gathered before the fallback: the working memory
\* hits, then the semantic rows of the indexed ids
RecallIndexed(query, limit, scanS, order) ==
    LET indexed_ids == SearchRanked(keyword_index, query, limit * 2, order)
    IN  WorkingSearch(working, query)
            \o FetchIndexed(indexed_ids, StorageSearch(scanS, <<>>, 1000))

\* Brain::recall: everything gathered before re-ranking. scanE and scanS are
\* the row orders of the episodic and semantic table (the empty sequence for
\* a table whose reads fail), order the iteration order of the score map.
RecallCandidates(query, limit, scanE, scanS, order) ==
    LET results == RecallIndexed(query, limit, scanS, order)
        fallback == IF Len(results) < limit
                    THEN KeywordHits(RecallFallbackKeywords(query), scanE,
                                     scanS, limit)
                    ELSE <<>>
    IN  results \o fallback \o StorageSearch(scanS, query, limit)

\* Brain::recall: the searches of the long-term tiers a call makes, in order,
\* as <<tier, query>>: one semantic search per indexed id, an episodic and a
\* semantic search per keyword of the fallback, the semantic search of the
\* whole query
RecallSearches(query, limit, scanS, order) ==
    LET indexed_ids == SearchRanked(keyword_index, query, limit * 2, order)
        keywords == IF Len(RecallIndexed(query, limit, scanS, order)) < limit
                    THEN RecallFallbackKeywords(query) ELSE <<>>
        perKeyword(i) == IF i % 2 = 1
                         THEN <<"episodic", keywords[(i + 1) \div 2]>>
                         ELSE <<"semantic", keywords[i \div 2]>>
    IN  [i \in DOMAIN indexed_ids |-> <<"semantic", <<>>>>]
            \o [i \in 1..(2 * Len(keywords)) |-> perKeyword(i)]
            \o << <<"semantic", query>> >>

\* the re-rank of Brain::recall: strength * 0.5 + sim * 0.5
Rescore(item, sim) == [item EXCEPT !.strength = (@ * 500 + sim * 500) \div 1000]

\* ForgettingCurve::apply_decay, one item
ApplyDecay(item, t) == Decay(item, CalculateDecay(item, t))

\* a sort that leaves the results as gathered
SortByRelevanceKept(items, t) == items

\* results.sort_by(relevance_score, descending)
SortByRelevance(items, t) ==
    LET pairs == [i \in DOMAIN items |-> <<RelevanceScore(items[i], t), items[i]>>]
        sorted == SortPairsDesc(pairs)
    IN  [i \in DOMAIN sorted |-> sorted[i][2]]

\* results.retain(|item| seen.insert(item.content.clone()))
RECURSIVE DedupByContent(_, _)
DedupByContent(items, seen) ==
    IF items = <<>> THEN <<>>
    ELSE IF Head(items).content \in seen THEN DedupByContent(Tail(items), seen)
    ELSE <<Head(items)>>
             \o DedupByContent(Tail(items), seen \cup {Head(items).content})

\* Brain::recall from the re-rank on; sims gives the cosine similarity of the
\* query to each content
RecallOutput(candidates, sims, limit, t) ==
    LET rescored == [i \in DOMAIN candidates |->
                        ApplyDecay(Rescore(candidates[i], sims[candidates[i].content]), t)]
    IN  Truncate(DedupByContent(SortByRelevance(rescored, t), {}), limit)

\* Brain::recall(query, limit); readE and readS tell whether the searches of
\* the episodic and semantic table return Ok. recall works on copies and
\* changes no field of the Brain, so what a recall returns after another recall
\* it also returns before it: the model takes a recall only after an operation
\* that is not a recall.
Recall(query, limit, readE, readS) ==
    /\ last.op # "recall"
    /\ \E scanE \in (IF readE THEN Orders(episodic) ELSE {<<>>}),
          scanS \in (IF readS THEN Orders(semantic) ELSE {<<>>}),
          order \in Orders(RankedIds(keyword_index, query)) :
           LET candidates == RecallCandidates(query, limit, scanE, scanS, order)
           IN  \E sims \in [{ candidates[i].content : i \in DOMAIN candidates }
                                -> SimValues] :
                   last' = [op |-> "recall", query |-> query, limit |-> limit,
                            reads |-> readE /\ readS,
                            indexed |-> SearchRanked(keyword_index, query,
                                                     limit * 2, order),
                            candidates |-> candidates,
                            searches |-> RecallSearches(query, limit, scanS,
                                                        order),
                            out |-> RecallOutput(candidates, sims, limit, now),
                            prev |-> last]
    /\ UNCHANGED <<pc, dimension, next_idx, uuid_to_idx, id_map, hnsw, cache_misses, cache_hits, cache, counters, table, durable, capacity, working, episodic, semantic, procedural,
                   keyword_index, doc_keywords, bloom_bits, bloom_count, now,
                   next_id>>

----------------------------------------------------------------------------
(* The inputs of the model: the texts that are ingested, imported, used as *)
(* context and asked for.                                                  *)

T_ab      == <<"a","b">>
T_AB      == <<"A","B">>
T_cd      == <<"c","d">>
T_ab_cd   == <<"a","b"," ","c","d">>
T_abDcd   == <<"a","b","-","c","d">>
T_abUcd   == <<"a","b","_","c","d">>
T_ab_is   == <<"a","b"," ","i","s"," ","c","d">>
T_never   == <<"n","e","v","e","r"," ","a","b">>

T_nev     == <<"n","e","v","e","r">>
T_a       == <<"a">>
T_ab_ab   == <<"a","b"," ","a","b">>
T_never_is == <<"n","e","v","e","r"," ","a","b"," ","i","s"," ","c","d">>
T_NEVER   == <<"N","E","V","E","R"," ","a","b">>

\* the texts and contexts pushed onto a WorkingMemory on its own
Texts == {T_ab, T_AB, T_ab_cd}
Contexts == {<<>>, <<T_cd>>}
\* the queries of recall
Queries == {T_ab, T_cd, T_abDcd, T_nev}

\* the inputs of Spec: the texts ingested and the records imported
LifeTexts == {T_ab, T_ab_is}
Imports ==
    { [content |-> T_ab, emotion |-> "Positive", strength |-> 500],
      [content |-> T_ab_cd, emotion |-> "Neutral", strength |-> 1000] }
ImportTiers == {"Episodic", "Semantic"}

----------------------------------------------------------------------------
(* Spec: a Brain over its life: texts are ingested, records are imported   *)
(* into the tiers, time passes and the Brain sleeps; writes can fail.      *)

Next ==
    \/ \E input \in LifeTexts, outcome \in StoreOutcomes :
           Process(input, <<>>, outcome)
    \/ \E tier \in ImportTiers, import \in Imports :
           StoreDirect(tier, import.content, import.emotion, import.strength, "ok")
    \/ Tick
    \/ \E okE \in BOOLEAN, okS \in BOOLEAN : Sleep(okE, okS)

Spec == Init /\ [][Next]_vars

----------------------------------------------------------------------------
(* SpecIndex: a Brain that ingests texts, is reopened on its database and  *)
(* rebuilds its indexes.                                                   *)

IndexTexts == {T_ab, T_abDcd, T_abUcd, T_ab_is, T_never}

NextIndex ==
    \/ \E input \in IndexTexts, outcome \in StoreOutcomes :
           Process(input, <<>>, outcome)
    \/ Reopen
    \/ \E readE \in BOOLEAN, readS \in BOOLEAN, readP \in BOOLEAN :
           RebuildIndexes(readE, readS, readP)

SpecIndex == Init /\ [][NextIndex]_vars

----------------------------------------------------------------------------
(* SpecRecall: a Brain that ingests texts, sleeps as time passes and is    *)
(* asked to recall.                                                        *)

RecallInputs ==
    { [text |-> T_ab_is, context |-> <<>>],
      [text |-> T_abDcd, context |-> <<>>],
      [text |-> T_never, context |-> <<>>],
      [text |-> T_AB, context |-> <<T_cd>>] }

NextRecall ==
    \/ \E input \in RecallInputs : Process(input.text, input.context, "ok")
    \/ Tick
    \/ Sleep(TRUE, TRUE)
    \/ \E query \in Queries, limit \in 0..MaxLimit, reads \in BOOLEAN :
           Recall(query, limit, reads, reads)

SpecRecall == Init /\ [][NextRecall]_vars

----------------------------------------------------------------------------
(* SpecWM: a WorkingMemory on its own, WorkingMemory::new(capacity) for    *)
(* any capacity of the bound, driven through push, rehearse and clear.     *)

InitWM ==
    /\ capacity \in 0..MaxCapacity
    /\ working = <<>>
    /\ episodic = {} /\ semantic = {} /\ procedural = {}
    /\ keyword_index = {} /\ doc_keywords = {}
    /\ bloom_bits = {} /\ bloom_count = 0
    /\ now = 0
    /\ next_id = 1
    /\ table = {} /\ durable = {}
    /\ pc = [t \in 1..NumThreads |-> [op |-> "idle"]]
    /\ dimension = 1
    /\ next_idx = 0
    /\ uuid_to_idx = {}
    /\ id_map = {}
    /\ hnsw = <<>>
    /\ cache_misses = 0
    /\ cache_hits = 0
    /\ cache = [cap |-> 1, entries |-> <<>>]
    /\ counters = [p \in {} |-> 0]
    /\ last = NoOp

\* wm.push(MemoryItem::new(content, context))
WMPush(content, context) ==
    /\ next_id <= MaxPushes
    /\ LET item == NewItem(next_id, content, context, now)
       IN  /\ working' = PushItems(working, capacity, item)
           /\ last' = [op |-> "push", before |-> working, item |-> item,
                       evicted |-> PushEvicted(working, capacity)]
    /\ next_id' = next_id + 1
    /\ UNCHANGED <<pc, dimension, next_idx, uuid_to_idx, id_map, hnsw, cache_misses, cache_hits, cache, counters, table, durable, capacity, episodic, semantic, procedural, keyword_index,
                   doc_keywords, bloom_bits, bloom_count, now>>

\* wm.rehearse(content)
WMRehearse(content) ==
    /\ \A i \in DOMAIN working :
          StrContains(working[i].content, content)
              => working[i].access_count < MaxAccess
    /\ working' = RehearseItems(working, content, now)
    /\ last' = [op |-> "rehearse", before |-> working]
    /\ UNCHANGED <<pc, dimension, next_idx, uuid_to_idx, id_map, hnsw, cache_misses, cache_hits, cache, counters, table, durable, capacity, episodic, semantic, procedural, keyword_index,
                   doc_keywords, bloom_bits, bloom_count, now, next_id>>

\* wm.clear()
WMClear ==
    /\ working' = <<>>
    /\ last' = [op |-> "clear", before |-> working]
    /\ UNCHANGED <<pc, dimension, next_idx, uuid_to_idx, id_map, hnsw, cache_misses, cache_hits, cache, counters, table, durable, capacity, episodic, semantic, procedural, keyword_index,
                   doc_keywords, bloom_bits, bloom_count, now, next_id>>

NextWM ==
    \/ \E content \in Texts, context \in Contexts : WMPush(content, context)
    \/ \E content \in Texts : WMRehearse(content)
    \/ WMClear

SpecWM == InitWM /\ [][NextWM]_vars

----------------------------------------------------------------------------
(* SpecStrength: a Brain whose records are ingested, stored with an        *)
(* emotion, rehearsed, given a new strength, and decayed by sleep as time  *)
(* passes.                                                                 *)

\* the texts ingested: one goes to the semantic, one to the procedural tier
StrengthTexts == {T_ab_is, T_never}
\* the id prefixes and the strengths handed to update_strength
IdPrefixes == {IdString(1), IdString(2)}
NewStrengths == {-200, 1500}

\* brain.<tier>.store(MemoryItem::new(content, None).with_emotion(emotion))
StoreEmotional(tier, content, emotion) ==
    StoreDirect(tier, content, emotion,
                WithEmotion(NewItem(next_id, content, <<>>, now), emotion).strength,
                "ok")

NextStrength ==
    \/ \E input \in StrengthTexts : Process(input, <<>>, "ok")
    \/ StoreEmotional("Episodic", T_ab, "Positive")
    \/ Tick
    \/ Sleep(TRUE, TRUE)
    \/ WMRehearse(T_nev)
    \/ \E id_prefix \in IdPrefixes, new_strength \in NewStrengths,
          reads \in BOOLEAN, outcome \in {"ok", "fail"} :
           UpdateStrength(id_prefix, new_strength, reads, reads, reads, outcome)

SpecStrength == Init /\ [][NextStrength]_vars

----------------------------------------------------------------------------
(* SpecAssoc: records get their associations from the auto-link of process *)
(* and from associate calls on an item a caller has built.                 *)

\* let mut item = MemoryItem::new(content, None)
MemoryNew(content) ==
    /\ next_id <= MaxIds
    /\ last' = [op |-> "new", item |-> NewItem(next_id, content, <<>>, now)]
    /\ next_id' = next_id + 1
    /\ UNCHANGED <<pc, dimension, next_idx, uuid_to_idx, id_map, hnsw, cache_misses, cache_hits, cache, counters, table, durable, capacity, working, episodic, semantic, procedural,
                   keyword_index, doc_keywords, bloom_bits, bloom_count, now>>

\* item.associate(other_id) on the item the caller holds
AssociateCall(other_id) ==
    /\ last.op \in {"new", "associate"}
    /\ last' = [op |-> "associate", item |-> Associate(last.item, other_id),
                other_id |-> other_id, before |-> last.item]
    /\ UNCHANGED <<pc, dimension, next_idx, uuid_to_idx, id_map, hnsw, cache_misses, cache_hits, cache, counters, table, durable, capacity, working, episodic, semantic, procedural,
                   keyword_index, doc_keywords, bloom_bits, bloom_count, now,
                   next_id>>

NextAssoc ==
    \/ \E input \in LifeTexts, outcome \in StoreOutcomes :
           Process(input, <<>>, outcome)
    \/ \E content \in LifeTexts : MemoryNew(content)
    \/ \E other_id \in 1..MaxIds : AssociateCall(other_id)

SpecAssoc == Init /\ [][NextAssoc]_vars

----------------------------------------------------------------------------
(* SpecStorage: a Storage on its own; a caller saves items it has built    *)
(* and deletes rows by id while writes and flushes can fail.               *)

\* the contexts (None, Some(""), Some("cd")) and the associations of the
\* items saved
StorageContexts == {<<>>, << <<>> >>, <<T_cd>>}
StorageLinks == {<<>>, <<2>>}

\* storage.save(&item) / storage.update(&item): INSERT, then flush_all.
\* "fail": the INSERT fails; "flush_fail": the row is written, the flush fails.
StorageSave(id, context, associations, emotion, outcome) ==
    LET item == [NewItem(id, T_ab, context, now) EXCEPT
                    !.memory_type = "Episodic", !.emotion = emotion,
                    !.associations = associations]
        written == IF outcome = "fail" THEN table ELSE Save(table, item)
    IN  /\ table' = written
        /\ durable' = IF outcome = "ok" THEN written ELSE durable
        /\ last' = [op |-> "save", ok |-> outcome = "ok", item |-> item]
        /\ UNCHANGED <<pc, dimension, next_idx, uuid_to_idx, id_map, hnsw, cache_misses, cache_hits, cache, counters, capacity, working, episodic, semantic, procedural,
                       keyword_index, doc_keywords, bloom_bits, bloom_count,
                       now, next_id>>

\* storage.delete(&id): DELETE and return; ok tells whether the DELETE ran
StorageDelete(id, ok) ==
    /\ table' = IF ok THEN Delete(table, id) ELSE table
    /\ last' = [op |-> "delete", ok |-> ok, id |-> id]
    /\ UNCHANGED <<pc, dimension, next_idx, uuid_to_idx, id_map, hnsw, cache_misses, cache_hits, cache, counters, durable, capacity, working, episodic, semantic, procedural,
                   keyword_index, doc_keywords, bloom_bits, bloom_count, now,
                   next_id>>

NextStorage ==
    \/ \E id \in 1..MaxIds, context \in StorageContexts,
          associations \in StorageLinks, outcome \in StoreOutcomes :
           StorageSave(id, context, associations, "Surprise", outcome)
    \/ \E id \in 1..MaxIds, ok \in BOOLEAN : StorageDelete(id, ok)
    \/ Tick

SpecStorage == Init /\ [][NextStorage]_vars

----------------------------------------------------------------------------
(* SpecInverted: an InvertedIndex on its own (the Brain's keyword_index is *)
(* a public field), driven through add, add_batch, remove, update, clear   *)
(* and search_ranked.                                                      *)

\* the contents indexed ("a" has no token) and the queries asked
IndexContents == {T_ab, T_cd, T_ab_cd, T_a}
IndexQueries == {T_ab, T_ab_ab, T_ab_cd}

\* index.add(id, content)
IndexAddCall(id, content) ==
    /\ keyword_index' = IndexAdd(keyword_index, id, content)
    /\ doc_keywords' = DocKeywordsAdd(doc_keywords, id, content)
    /\ last' = [op |-> "add", id |-> id, content |-> content,
                index |-> keyword_index, docs |-> doc_keywords]
    /\ UNCHANGED <<pc, dimension, next_idx, uuid_to_idx, id_map, hnsw, cache_misses, cache_hits, cache, counters, table, durable, capacity, working, episodic, semantic,
                   procedural, bloom_bits, bloom_count, now, next_id>>

\* index.remove(&id); `prev` keeps the add that came right before it
IndexRemoveCall(id) ==
    /\ keyword_index' = IndexRemove(keyword_index, doc_keywords, id)
    /\ doc_keywords' = DocKeywordsRemove(doc_keywords, id)
    /\ last' = [op |-> "remove", id |-> id,
                removed |-> IndexRemoved(doc_keywords, id),
                prev |-> IF last.op = "add" THEN last ELSE NoOp]
    /\ UNCHANGED <<pc, dimension, next_idx, uuid_to_idx, id_map, hnsw, cache_misses, cache_hits, cache, counters, table, durable, capacity, working, episodic, semantic,
                   procedural, bloom_bits, bloom_count, now, next_id>>

\* index.update(id, new_content): remove, then add
IndexUpdateCall(id, new_content) ==
    LET index == IndexRemove(keyword_index, doc_keywords, id)
        docs == DocKeywordsRemove(doc_keywords, id)
    IN  /\ keyword_index' = IndexAdd(index, id, new_content)
        /\ doc_keywords' = DocKeywordsAdd(docs, id, new_content)
        /\ last' = [op |-> "update", id |-> id, content |-> new_content]
        /\ UNCHANGED <<pc, dimension, next_idx, uuid_to_idx, id_map, hnsw, cache_misses, cache_hits, cache, counters, table, durable, capacity, working, episodic, semantic,
                       procedural, bloom_bits, bloom_count, now, next_id>>

\* index.search_ranked(query, limit); `order` is the iteration order of the
\* HashMap of scores. The call changes nothing but `last`, so the model does
\* not let it follow itself.
IndexSearchRanked(query, limit) ==
    /\ last.op # "search_ranked"
    /\ \E order \in Orders(RankedIds(keyword_index, query)) :
           last' = [op |-> "search_ranked", query |-> query, limit |-> limit,
                    out |-> SearchRanked(keyword_index, query, limit, order)]
    /\ UNCHANGED <<pc, dimension, next_idx, uuid_to_idx, id_map, hnsw, cache_misses, cache_hits, cache, counters, table, durable, capacity, working, episodic, semantic,
                   procedural, keyword_index, doc_keywords, bloom_bits,
                   bloom_count, now, next_id>>

\* index.add_batch(items)
IndexBatches ==
    { <<<<1, T_ab>>, <<1, T_cd>>>>, <<<<1, T_ab_cd>>, <<2, T_ab>>>> }
IndexAddBatchCall(items) ==
    /\ keyword_index' = IndexAddBatch(keyword_index, items)
    /\ doc_keywords' = DocKeywordsAddBatch(doc_keywords, items)
    /\ last' = [op |-> "add_batch", items |-> items]
    /\ UNCHANGED <<pc, dimension, next_idx, uuid_to_idx, id_map, hnsw,
                   cache_misses, cache_hits, cache, counters, table, durable,
                   capacity, working, episodic, semantic, procedural,
                   bloom_bits, bloom_count, now, next_id>>

\* index.clear()
IndexClearCall ==
    /\ keyword_index' = {}
    /\ doc_keywords' = {}
    /\ last' = [op |-> "clear"]
    /\ UNCHANGED <<pc, dimension, next_idx, uuid_to_idx, id_map, hnsw,
                   cache_misses, cache_hits, cache, counters, table, durable,
                   capacity, working, episodic, semantic, procedural,
                   bloom_bits, bloom_count, now, next_id>>

NextInverted ==
    \/ \E id \in 1..MaxIds, content \in IndexContents : IndexAddCall(id, content)
    \/ \E items \in IndexBatches : IndexAddBatchCall(items)
    \/ IndexClearCall
    \/ \E id \in 1..MaxIds : IndexRemoveCall(id)
    \/ \E id \in 1..MaxIds, content \in IndexContents :
           IndexUpdateCall(id, content)
    \/ \E query \in IndexQueries, limit \in 0..MaxLimit :
           IndexSearchRanked(query, limit)

SpecInverted == Init /\ [][NextInverted]_vars

----------------------------------------------------------------------------
(* SpecBloom: a BloomFilter on its own (the Brain's keyword_bloom is a     *)
(* public field): items are added, other filters are merged in, the filter *)
(* is cleared. `last` also keeps the items added since the last clear:     *)
(* `added` by add, `added_str` by add_str, here or in a filter merged in.  *)

BloomItems == {T_ab, T_AB, T_cd}
BloomLog == IF last.op = "none" THEN [added |-> {}, added_str |-> {}] ELSE last

\* the bits of a filter to which `raw` was added by add and `strs` by add_str
BloomOf(raw, strs) ==
    UNION { BloomAdd({}, x) : x \in raw } \cup UNION { BloomAddStr({}, x) : x \in strs }

\* filter.add(&item)
BloomAddCall(item) ==
    /\ bloom_count < MaxAdds
    /\ bloom_bits' = BloomAdd(bloom_bits, item)
    /\ bloom_count' = bloom_count + 1
    /\ last' = [op |-> "bloom_add", added |-> BloomLog.added \cup {item},
                added_str |-> BloomLog.added_str]
    /\ UNCHANGED <<pc, dimension, next_idx, uuid_to_idx, id_map, hnsw, cache_misses, cache_hits, cache, counters, table, durable, capacity, working, episodic, semantic,
                   procedural, keyword_index, doc_keywords, now, next_id>>

\* filter.add_str(s)
BloomAddStrCall(str) ==
    /\ bloom_count < MaxAdds
    /\ bloom_bits' = BloomAddStr(bloom_bits, str)
    /\ bloom_count' = bloom_count + 1
    /\ last' = [op |-> "bloom_add_str", added |-> BloomLog.added,
                added_str |-> BloomLog.added_str \cup {str}]
    /\ UNCHANGED <<pc, dimension, next_idx, uuid_to_idx, id_map, hnsw, cache_misses, cache_hits, cache, counters, table, durable, capacity, working, episodic, semantic,
                   procedural, keyword_index, doc_keywords, now, next_id>>

\* filter.merge(&other), other holding `raw` and `strs`; same tells whether
\* the two filters have the same size and num_hashes
BloomMergeCall(raw, strs, same) ==
    /\ bloom_bits' = IF same THEN BloomMerge(bloom_bits, BloomOf(raw, strs))
                     ELSE bloom_bits
    /\ last' = [op |-> "bloom_merge", ok |-> same,
                added |-> BloomLog.added \cup (IF same THEN raw ELSE {}),
                added_str |-> BloomLog.added_str \cup (IF same THEN strs ELSE {})]
    /\ UNCHANGED <<pc, dimension, next_idx, uuid_to_idx, id_map, hnsw, cache_misses, cache_hits, cache, counters, table, durable, capacity, working, episodic, semantic,
                   procedural, keyword_index, doc_keywords, bloom_count, now,
                   next_id>>

\* filter.clear()
BloomClearCall ==
    /\ bloom_bits' = {}
    /\ bloom_count' = 0
    /\ last' = [op |-> "bloom_clear", added |-> {}, added_str |-> {}]
    /\ UNCHANGED <<pc, dimension, next_idx, uuid_to_idx, id_map, hnsw, cache_misses, cache_hits, cache, counters, table, durable, capacity, working, episodic, semantic,
                   procedural, keyword_index, doc_keywords, now, next_id>>

NextBloom ==
    \/ \E item \in BloomItems : BloomAddCall(item)
    \/ \E str \in BloomItems : BloomAddStrCall(str)
    \/ \E raw \in SUBSET {T_AB}, strs \in SUBSET {T_cd, T_abDcd},
          same \in BOOLEAN : BloomMergeCall(raw, strs, same)
    \/ BloomClearCall

SpecBloom == Init /\ [][NextBloom]_vars

----------------------------------------------------------------------------
(* SpecCounting: a CountingBloomFilter on its own, driven through add_str  *)
(* and remove_str. `last` keeps, for an add, the counters before it.       *)

CountingItems == {T_ab, T_cd}

\* filter.add_str(s)
CountingAddStr(s) ==
    /\ s # T_ab =>
         CounterAt(counters, CountingHashes(ToLowercase(s))[1]) < MaxMixedAdds
    /\ counters' = CountingAdd(counters, CountingHashes(ToLowercase(s)))
    /\ last' = [op |-> "counting_add", item |-> s, before |-> counters]
    /\ UNCHANGED <<pc, dimension, next_idx, uuid_to_idx, id_map, hnsw, cache_misses, cache_hits, cache, table, durable, capacity, working, episodic, semantic,
                   procedural, keyword_index, doc_keywords, bloom_bits,
                   bloom_count, now, next_id>>

\* filter.remove_str(s); `prev` is <<c>> when the call directly follows an
\* add_str of the same text made on the counters c
CountingRemoveStr(s) ==
    /\ counters' = CountingRemove(counters, CountingHashes(ToLowercase(s)))
    /\ last' = [op |-> "counting_remove", item |-> s,
                prev |-> IF last.op = "counting_add" /\ last.item = s
                         THEN <<last.before>> ELSE <<>>]
    /\ UNCHANGED <<pc, dimension, next_idx, uuid_to_idx, id_map, hnsw, cache_misses, cache_hits, cache, table, durable, capacity, working, episodic, semantic,
                   procedural, keyword_index, doc_keywords, bloom_bits,
                   bloom_count, now, next_id>>

NextCounting ==
    \/ \E s \in CountingItems : CountingAddStr(s)
    \/ \E s \in CountingItems : CountingRemoveStr(s)

SpecCounting == Init /\ [][NextCounting]_vars

----------------------------------------------------------------------------
(* SpecCache: a CachedEmbedder on its own, CachedEmbedder::new(inner, n)   *)
(* for n in 1..MaxCacheSize, driven through embed, embed_batch and clear.  *)

CacheTexts == {T_ab, T_cd}
Batches == UNION { [1..n -> CacheTexts] : n \in 0..MaxBatch }

InitCache ==
    /\ capacity = WorkingCapacity
    /\ working = <<>>
    /\ episodic = {} /\ semantic = {} /\ procedural = {}
    /\ keyword_index = {} /\ doc_keywords = {}
    /\ bloom_bits = {} /\ bloom_count = 0
    /\ now = 0
    /\ next_id = 1
    /\ table = {} /\ durable = {}
    /\ pc = [t \in 1..NumThreads |-> [op |-> "idle"]]
    /\ dimension = 1
    /\ next_idx = 0
    /\ uuid_to_idx = {}
    /\ id_map = {}
    /\ hnsw = <<>>
    /\ counters = [p \in {} |-> 0]
    /\ \E n \in 1..MaxCacheSize : cache = [cap |-> n, entries |-> <<>>]
    /\ cache_hits = 0 /\ cache_misses = 0
    /\ last = NoOp

\* cached.embed(text)
CacheEmbed(text) ==
    /\ cache_hits + cache_misses < MaxLookups
    /\ LET found == LruPeek(cache.entries, HashText(text))
       IN  IF found # <<>>
           THEN /\ cache' = LruGet(cache, HashText(text))
                /\ cache_hits' = cache_hits + 1
                /\ cache_misses' = cache_misses
                /\ last' = [op |-> "embed", text |-> text, out |-> found[1],
                            computed |-> <<>>]
           ELSE /\ cache' = LruPut(cache, HashText(text), InnerEmbed(text))
                /\ cache_hits' = cache_hits
                /\ cache_misses' = cache_misses + 1
                /\ last' = [op |-> "embed", text |-> text,
                            out |-> InnerEmbed(text), computed |-> <<text>>]
    /\ UNCHANGED <<pc, dimension, next_idx, uuid_to_idx, id_map, hnsw, counters, table, durable, capacity, working, episodic,
                   semantic, procedural, keyword_index, doc_keywords,
                   bloom_bits, bloom_count, now, next_id>>

\* cached.embed_batch(texts); `computed` lists the texts handed to the inner
\* embedder, `before` is the cache, `missed` the misses before the call
CacheEmbedBatch(texts) ==
    /\ cache_hits + cache_misses < MaxLookups
    /\ LET to_compute == BatchToCompute(cache.entries, texts)
       IN  /\ cache_hits' = cache_hits + Len(BatchCached(cache.entries, texts))
           /\ cache_misses' = cache_misses + Len(to_compute)
           /\ cache' = BatchPutAll(cache, texts, to_compute)
           /\ last' = [op |-> "embed_batch", texts |-> texts,
                       out |-> BatchResults(cache.entries, texts),
                       computed |-> [i \in DOMAIN to_compute |->
                                        texts[to_compute[i]]],
                       before |-> cache, missed |-> cache_misses]
    /\ UNCHANGED <<pc, dimension, next_idx, uuid_to_idx, id_map, hnsw, counters, table, durable, capacity, working, episodic,
                   semantic, procedural, keyword_index, doc_keywords,
                   bloom_bits, bloom_count, now, next_id>>

\* cached.clear()
CacheClear ==
    /\ cache' = [cache EXCEPT !.entries = <<>>]
    /\ cache_hits' = 0
    /\ cache_misses' = 0
    /\ last' = [op |-> "cache_clear"]
    /\ UNCHANGED <<pc, dimension, next_idx, uuid_to_idx, id_map, hnsw, counters, table, durable, capacity, working, episodic,
                   semantic, procedural, keyword_index, doc_keywords,
                   bloom_bits, bloom_count, now, next_id>>

NextCache ==
    \/ \E text \in CacheTexts : CacheEmbed(text)
    \/ \E texts \in Batches : CacheEmbedBatch(texts)
    \/ CacheClear

SpecCache == InitCache /\ [][NextCache]_vars

----------------------------------------------------------------------------
(* SpecHnsw: an HnswIndex on its own, HnswIndex::new(d) for d in           *)
(* 1..MaxDimension, used by one thread. `last` keeps the ids that were     *)
(* added with a vector of the index dimension and not removed or cleared   *)
(* since (`live`), and the fields before the call (`before`).              *)

HnswIds == 1..MaxIds
HnswVectors == {<<1000>>, <<1000, 0>>, <<0, 1000>>}
HnswBatches ==
    { <<<<1, <<1000, 0>>>>, <<1, <<0, 1000>>>>>>,
      <<<<1, <<1000>>>>, <<2, <<1000, 0>>>>>> }
HnswLive == IF last.op = "none" THEN {} ELSE last.live

\* the ids of a batch whose vector has the index dimension
BatchLive(items) ==
    { items[i][1] : i \in { j \in DOMAIN items : Len(items[j][2]) = dimension } }

InitHnsw ==
    /\ capacity = WorkingCapacity
    /\ working = <<>>
    /\ episodic = {} /\ semantic = {} /\ procedural = {}
    /\ keyword_index = {} /\ doc_keywords = {}
    /\ bloom_bits = {} /\ bloom_count = 0
    /\ now = 0
    /\ next_id = 1
    /\ table = {} /\ durable = {}
    /\ pc = [t \in 1..NumThreads |-> [op |-> "idle"]]
    /\ counters = [p \in {} |-> 0]
    /\ cache = [cap |-> 1, entries |-> <<>>]
    /\ cache_hits = 0 /\ cache_misses = 0
    /\ hnsw = <<>> /\ id_map = {} /\ uuid_to_idx = {} /\ next_idx = 0
    /\ dimension \in 1..MaxDimension
    /\ last = NoOp

\* index.add(id, embedding)
HnswAddCall(id, embedding) ==
    /\ Len(hnsw) < MaxPoints
    /\ LET r == HnswAdd(HnswState, dimension, id, embedding)
       IN  /\ hnsw' = r.st.hnsw
           /\ id_map' = r.st.id_map
           /\ uuid_to_idx' = r.st.uuid_to_idx
           /\ last' = [op |-> "hnsw_add", id |-> id, embedding |-> embedding,
                       ok |-> r.ok, before |-> HnswState,
                       live |-> HnswLive \cup
                                (IF Len(embedding) = dimension THEN {id} ELSE {})]
    /\ UNCHANGED <<pc, next_idx, dimension>>
    /\ UNCHANGED <<pc, cache_misses, cache_hits, cache, counters, table, durable,
                   capacity, working, episodic, semantic, procedural,
                   keyword_index, doc_keywords, bloom_bits, bloom_count, now,
                   next_id>>

\* index.add_batch(items)
HnswAddBatchCall(items) ==
    /\ Len(hnsw) + Len(items) <= MaxPoints
    /\ LET r == HnswAddBatch(HnswState, dimension, items)
       IN  /\ hnsw' = r.st.hnsw
           /\ id_map' = r.st.id_map
           /\ uuid_to_idx' = r.st.uuid_to_idx
           /\ last' = [op |-> "hnsw_add_batch", items |-> items,
                       count |-> r.count, before |-> HnswState,
                       live |-> HnswLive \cup BatchLive(items)]
    /\ UNCHANGED <<pc, next_idx, dimension>>
    /\ UNCHANGED <<pc, cache_misses, cache_hits, cache, counters, table, durable,
                   capacity, working, episodic, semantic, procedural,
                   keyword_index, doc_keywords, bloom_bits, bloom_count, now,
                   next_id>>

\* index.remove(&id)
HnswRemoveCall(id) ==
    /\ uuid_to_idx' = MapRemove(uuid_to_idx, id)
    /\ id_map' = HnswRemoveIdMap(id_map, uuid_to_idx, id)
    /\ last' = [op |-> "hnsw_remove", id |-> id,
                removed |-> ContainsKey(uuid_to_idx, id),
                before |-> HnswState, live |-> HnswLive \ {id}]
    /\ UNCHANGED <<pc, hnsw, next_idx, dimension>>
    /\ UNCHANGED <<pc, cache_misses, cache_hits, cache, counters, table, durable,
                   capacity, working, episodic, semantic, procedural,
                   keyword_index, doc_keywords, bloom_bits, bloom_count, now,
                   next_id>>

\* index.clear()
HnswClearCall ==
    /\ hnsw' = <<>>
    /\ id_map' = {}
    /\ uuid_to_idx' = {}
    /\ next_idx' = 0
    /\ last' = [op |-> "hnsw_clear", before |-> HnswState, live |-> {}]
    /\ UNCHANGED dimension
    /\ UNCHANGED <<pc, cache_misses, cache_hits, cache, counters, table, durable,
                   capacity, working, episodic, semantic, procedural,
                   keyword_index, doc_keywords, bloom_bits, bloom_count, now,
                   next_id>>

\* index.search(query, k); a search changes no field, so the model takes one
\* only after an operation that is not a search
HnswSearchCall(query, k) ==
    /\ last.op # "hnsw_search"
    /\ \E found \in NearestChoices(hnsw, query, k) :
           last' = [op |-> "hnsw_search", query |-> query, k |-> k,
                    results |-> IF Len(query) # dimension THEN <<>>
                                ELSE HnswSearchResults(hnsw, id_map, query, found),
                    before |-> HnswState, live |-> HnswLive]
    /\ UNCHANGED <<pc, hnsw, id_map, uuid_to_idx, next_idx, dimension>>
    /\ UNCHANGED <<pc, cache_misses, cache_hits, cache, counters, table, durable,
                   capacity, working, episodic, semantic, procedural,
                   keyword_index, doc_keywords, bloom_bits, bloom_count, now,
                   next_id>>

NextHnsw ==
    \/ \E id \in HnswIds, embedding \in HnswVectors : HnswAddCall(id, embedding)
    \/ \E items \in HnswBatches : HnswAddBatchCall(items)
    \/ \E id \in HnswIds : HnswRemoveCall(id)
    \/ HnswClearCall
    \/ \E query \in HnswVectors, k \in 0..MaxK : HnswSearchCall(query, k)

SpecHnsw == InitHnsw /\ [][NextHnsw]_vars

----------------------------------------------------------------------------
(* SpecClassify: a Brain that ingests texts with and without the markers   *)
(* of the classifier, with and without a context; writes can fail.         *)

ClassifyTexts == {T_ab, T_ab_is, T_never, T_never_is, T_NEVER}

NextClassify ==
    \E input \in ClassifyTexts, context \in Contexts, outcome \in {"ok", "fail"} :
        Process(input, context, outcome)

SpecClassify == Init /\ [][NextClassify]_vars

----------------------------------------------------------------------------
(* SpecHnswThreads: NumThreads threads call add, add_batch, remove, clear, *)
(* search and stats on one shared HnswIndex (an Arc<HnswIndex>, as in the  *)
(* server's AppState). A call takes its RwLock guards one at a time, in    *)
(* the order of its let statements, does its work when it holds them all   *)
(* and drops them together when it returns. pc[t].held is the number of    *)
(* guards thread t holds.                                                  *)

\* the guards a call takes, in order: <<field, "write" or "read">>
LockPlan(op) ==
    IF op \in {"add", "add_batch", "clear"}
    THEN << <<"hnsw", "write">>, <<"id_map", "write">>,
            <<"uuid_to_idx", "write">>, <<"next_idx", "write">> >>
    ELSE IF op = "remove"
    THEN << <<"uuid_to_idx", "write">>, <<"id_map", "write">> >>
    ELSE IF op = "search"
    THEN << <<"hnsw", "read">>, <<"id_map", "read">> >>
    ELSE IF op = "stats" THEN << <<"id_map", "read">> >>
    ELSE <<>>

\* the guards thread t holds
HeldGuards(t) ==
    IF pc[t].op = "idle" THEN {}
    ELSE { LockPlan(pc[t].op)[i] : i \in 1..pc[t].held }

\* the guard thread t takes next, as a sequence: none when it holds them all
NextGuard(t) ==
    IF pc[t].op = "idle" \/ pc[t].held = Len(LockPlan(pc[t].op)) THEN <<>>
    ELSE <<LockPlan(pc[t].op)[pc[t].held + 1]>>

\* RwLock: a write guard needs the lock free, a read guard needs it free of
\* a writer
Grantable(t, guard) ==
    \A u \in (1..NumThreads) \ {t} :
        \A g \in HeldGuards(u) :
            g[1] = guard[1] => (g[2] = "read" /\ guard[2] = "read")

\* thread t waits for a lock that thread u holds
WaitsFor(t, u) ==
    /\ t # u
    /\ NextGuard(t) # <<>>
    /\ \E g \in HeldGuards(u) :
           /\ g[1] = NextGuard(t)[1][1]
           /\ ~(g[2] = "read" /\ NextGuard(t)[1][2] = "read")

\* the calls the threads make; every vector has the dimension of the index
\* (an add of another dimension returns before it takes a lock)
ThreadVector == [i \in 1..dimension |-> IF i = 1 THEN 1000 ELSE 0]
ThreadCalls ==
    { [op |-> "add", held |-> 0, items |-> <<<<1, ThreadVector>>>>],
      [op |-> "add_batch", held |-> 0,
       items |-> <<<<1, ThreadVector>>, <<2, ThreadVector>>>>],
      [op |-> "remove", held |-> 0, id |-> 1],
      [op |-> "clear", held |-> 0],
      [op |-> "search", held |-> 0, query |-> ThreadVector, k |-> 1],
      [op |-> "stats", held |-> 0] }

\* thread t enters a call
ThreadCall(t, call) ==
    /\ pc[t].op = "idle"
    /\ call.op \in {"add", "add_batch"} => Len(hnsw) + Len(call.items) <= MaxPoints
    /\ pc' = [pc EXCEPT ![t] = call]
    /\ last' = [op |-> "call", thread |-> t, call |-> call.op]
    /\ UNCHANGED <<hnsw, id_map, uuid_to_idx, next_idx, dimension>>
    /\ UNCHANGED <<cache_misses, cache_hits, cache, counters, table, durable,
                   capacity, working, episodic, semantic, procedural,
                   keyword_index, doc_keywords, bloom_bits, bloom_count, now,
                   next_id>>

\* thread t is granted the guard it asked for
ThreadAcquire(t) ==
    /\ NextGuard(t) # <<>>
    /\ Grantable(t, NextGuard(t)[1])
    /\ pc' = [pc EXCEPT ![t].held = @ + 1]
    /\ last' = [op |-> "lock", thread |-> t, call |-> pc[t].op]
    /\ UNCHANGED <<hnsw, id_map, uuid_to_idx, next_idx, dimension>>
    /\ UNCHANGED <<cache_misses, cache_hits, cache, counters, table, durable,
                   capacity, working, episodic, semantic, procedural,
                   keyword_index, doc_keywords, bloom_bits, bloom_count, now,
                   next_id>>

\* thread t holds every guard of its call: it does the work and returns,
\* dropping the guards (an add_batch goes on to the add of its next item)
ThreadReturn(t) ==
    /\ pc[t].op # "idle"
    /\ pc[t].held = Len(LockPlan(pc[t].op))
    /\ LET call == pc[t]
           added == IF call.op \in {"add", "add_batch"}
                    THEN HnswAdd(HnswState, dimension, Head(call.items)[1],
                                 Head(call.items)[2]).st
                    ELSE HnswState
       IN  /\ hnsw' = IF call.op = "clear" THEN <<>> ELSE added.hnsw
           /\ id_map' = IF call.op = "clear" THEN {}
                        ELSE IF call.op = "remove"
                        THEN HnswRemoveIdMap(id_map, uuid_to_idx, call.id)
                        ELSE added.id_map
           /\ uuid_to_idx' = IF call.op = "clear" THEN {}
                             ELSE IF call.op = "remove"
                             THEN MapRemove(uuid_to_idx, call.id)
                             ELSE added.uuid_to_idx
           /\ next_idx' = IF call.op = "clear" THEN 0 ELSE next_idx
           /\ pc' = [pc EXCEPT ![t] =
                        IF call.op = "add_batch" /\ Len(call.items) > 1
                        THEN [call EXCEPT !.held = 0, !.items = Tail(@)]
                        ELSE [op |-> "idle"]]
           /\ last' = [op |-> "return", thread |-> t, call |-> call.op]
    /\ UNCHANGED dimension
    /\ UNCHANGED <<cache_misses, cache_hits, cache, counters, table, durable,
                   capacity, working, episodic, semantic, procedural,
                   keyword_index, doc_keywords, bloom_bits, bloom_count, now,
                   next_id>>

NextHnswThreads ==
    \E t \in 1..NumThreads :
        \/ \E call \in ThreadCalls : ThreadCall(t, call)
        \/ ThreadAcquire(t)
        \/ ThreadReturn(t)

SpecHnswThreads == InitHnsw /\ [][NextHnswThreads]_vars

Ids(items) == { items[i].id : i \in DOMAIN items }

\* C1: a WorkingMemory created with capacity c never holds more than c items,
\* whatever sequence of push, rehearse and clear it has gone through.
C1_WorkingBounded == Len(working) <= capacity

\* What does hold of the bound: a memory of capacity c >= 1 never holds more
\* than c items, and one of capacity 0 holds at most one.
WorkingBoundedFromOne == Len(working) <= Max(capacity, 1)

\* C2 (as claimed): a push onto a memory that holds `capacity` items (at least
\* one) returns the item pushed earliest, a search for that item's content then returns nothing
\* and the other items keep their order; a push below capacity returns None
\* and evicts nothing.
C2_PushFifoSearchEmpty ==
    last.op = "push" =>
        /\ (Len(last.before) = capacity /\ last.before # <<>>) =>
              /\ last.evicted = <<Head(last.before)>>
              /\ WorkingSearch(working, Head(last.before).content) = <<>>
              /\ SubSeq(working, 1, Len(working) - 1) = Tail(last.before)
        /\ Len(last.before) < capacity =>
              /\ last.evicted = <<>>
              /\ SubSeq(working, 1, Len(working) - 1) = last.before

\* C2 (amended): a push onto a non-empty memory that holds at least `capacity`
\* items returns the item pushed earliest, no item held afterwards is that item
\* (a search for its content returns only other items) and the other items keep
\* their order; a push onto an empty memory or below capacity returns None and
\* evicts nothing; the pushed item is the last one held.
C2_PushFifo ==
    last.op = "push" =>
        LET full == Len(last.before) >= capacity /\ last.before # <<>>
            found == WorkingSearch(working, Head(last.before).content)
        IN  /\ full =>
                  /\ last.evicted = <<Head(last.before)>>
                  /\ Head(last.before).id \notin Ids(working)
                  /\ \A i \in DOMAIN found : found[i].id # Head(last.before).id
                  /\ SubSeq(working, 1, Len(working) - 1) = Tail(last.before)
            /\ ~full =>
                  /\ last.evicted = <<>>
                  /\ SubSeq(working, 1, Len(working) - 1) = last.before
            /\ working[Len(working)].id = last.item.id

\* C2 witness: a push has evicted an item while two items stay held.
C2_Witness ==
    /\ last.op = "push"
    /\ last.evicted # <<>>
    /\ Len(working) = 2
    /\ capacity = 2

----------------------------------------------------------------------------
(* Claims on Spec.                                                         *)

SimilarRows(rows, content) ==
    { r \in rows :
        \/ StrContains(ToLowercase(content), ToLowercase(r.content))
        \/ StrContains(ToLowercase(r.content), ToLowercase(content)) }

\* C4: when SemanticMemory.store returns Ok and some stored row's content is a
\* case-insensitive substring of the incoming content, or the other way round,
\* the number of rows does not increase and such a row has been accessed
\* (access_count + 1, strength + 0.1 up to 1.0); otherwise exactly one row is
\* added.
C4_SemanticDedup ==
    (last.op \in {"store", "process"} /\ last.ok
        /\ last.item.memory_type = "Semantic") =>
        IF SimilarRows(last.before, last.item.content) # {}
        THEN /\ Cardinality(semantic) <= Cardinality(last.before)
             /\ \E r \in SimilarRows(last.before, last.item.content) :
                    Access(r, now) \in semantic
        ELSE Cardinality(semantic) = Cardinality(last.before) + 1

\* C9: every item that is in working memory when sleep() is called and is
\* consolidation-worthy has a row of its id in a long-term tier after a sleep()
\* that returns Ok.
C9_WorthyPersistedBySleep ==
    (last.op = "sleep" /\ last.ok) =>
        \A i \in DOMAIN last.before :
            ShouldConsolidate(last.before[i]) =>
                last.before[i].id \in RowIds(episodic \cup semantic \cup procedural)

\* C10: the forgetting pass of a sleep() deletes no row whose emotion is not
\* Neutral and whose strength is at least 0.3 when the pass starts.
C10_EmotionalKept ==
    [][ last'.op = "sleep" =>
            \A r \in episodic \cup semantic :
                (r.emotion # "Neutral" /\ r.strength >= 300) =>
                    r.id \in RowIds(episodic' \cup semantic') ]_vars

----------------------------------------------------------------------------
(* Claims on SpecIndex.                                                    *)

\* the tokens of the claim: the case-folded runs of letters and digits, at
\* least 2 long
LetterDigitRuns(text) ==
    LET lower == ToLowercase(text)
        longEnough(w) == Len(w) >= 2
    IN  SelectSeq(SplitRuns(lower, [i \in DOMAIN lower |-> ~IsAlphanumeric(lower[i])],
                            <<>>),
                  longEnough)

\* C5: after a rebuild_indexes() that could read every tier, every
\* letter-or-digit run t (2 or more long) of the content of every persisted row
\* is in the bloom filter and search_and(t) has the row's id.
C5_RebuildCoversTokens ==
    (last.op = "rebuild" /\ last.reads) =>
        \A r \in episodic \cup semantic \cup procedural :
            \A t \in Range(LetterDigitRuns(r.content)) :
                /\ BloomContainsStr(bloom_bits, t)
                /\ r.id \in SearchAnd(keyword_index, t)

----------------------------------------------------------------------------
(* Claims on SpecRecall.                                                   *)

\* C6: recall(query, limit) returns at most limit records, no two of the same
\* content, in non-increasing order of relevance score.
C6_RecallBoundedDistinctSorted ==
    last.op = "recall" =>
        /\ Len(last.out) <= last.limit
        /\ \A i, j \in DOMAIN last.out :
               i # j => last.out[i].content # last.out[j].content
        /\ \A i \in 1..(Len(last.out) - 1) :
               RelevanceScore(last.out[i], now) >= RelevanceScore(last.out[i + 1], now)

\* C6 witness: a recall has gathered two candidates of one content, returned
\* two records of different relevance and cut the rest.
C6_Witness ==
    /\ last.op = "recall"
    /\ Len(last.out) = 2 /\ last.limit = 2
    /\ Len(last.candidates) > 2
    /\ \E i, j \in DOMAIN last.candidates :
           i # j /\ last.candidates[i].content = last.candidates[j].content
    /\ RelevanceScore(last.out[1], now) > RelevanceScore(last.out[2], now)

\* the keywords of a query: its index tokens and its fallback keywords
QueryKeywords(query) == Range(Tokenize(query)) \cup Range(RecallKeywords(query))

\* content or context contains the whole query or one of its keywords
MatchesRecall(item, query) ==
    \/ MatchesQuery(item, query)
    \/ \E k \in QueryKeywords(query) : MatchesQuery(item, k)

\* the recall follows process(text) and asks for a whitespace-separated word
\* of text
RecallOfWord ==
    /\ last.op = "recall"
    /\ last.prev.op = "process"
    /\ last.query \in Range(SplitWhitespace(last.prev.item.content))

CoveredRows(indexed, query) ==
    { r \in episodic \cup semantic \cup procedural :
        \/ \E i \in DOMAIN indexed : indexed[i][1] = r.id
        \/ \E k \in Range(RecallKeywords(query)) :
               StrContains(ToLowercase(r.content), ToLowercase(k)) }

\* C8: when a recall can read the tables, finds nothing in working memory and
\* no more than limit rows are to be covered, every row of the Episodic,
\* Semantic or Procedural tier whose id the keyword index returns for the
\* query, or whose content contains a fallback keyword of the query, is among
\* the candidates and its content is returned.
C8_RecallCoversTiers ==
    (last.op = "recall" /\ last.reads
        /\ WorkingSearch(working, last.query) = <<>>
        /\ Cardinality(CoveredRows(last.indexed, last.query)) <= last.limit) =>
        \A r \in CoveredRows(last.indexed, last.query) :
            /\ \E i \in DOMAIN last.candidates : last.candidates[i].id = r.id
            /\ \E i \in DOMAIN last.out : last.out[i].content = r.content

----------------------------------------------------------------------------
(* Claims on SpecStrength.                                                 *)

\* C11: after a sleep() that returns Ok, decay has been applied to every
\* long-term tier (each row of the episodic, semantic and procedural table is
\* deleted or has its strength multiplied by its decay factor) and no tier
\* holds a forgotten row, one with strength < 0.1.
C11_SleepDecaysAllTiers ==
    [][ (last'.op = "sleep" /\ last'.ok) =>
            /\ \A r \in episodic' \cup semantic' \cup procedural' : ~IsForgotten(r)
            /\ \A r \in procedural : \A kept \in procedural' :
                   kept.id = r.id =>
                       kept.strength \in
                           { Decay(r, ForgetFactor(r, now, soften)).strength :
                                 soften \in BOOLEAN } ]_vars

C14_UpdateStrengthSets ==
    last.op = "update_strength" =>
        /\ (last.ok /\ last.written /\ last.reads) =>
               \E r \in episodic \cup semantic \cup procedural :
                   /\ StartsWith(IdString(r.id), last.id_prefix)
                   /\ r.strength = Clamp01(last.new_strength)
        /\ (\A r \in episodic \cup semantic \cup procedural :
                ~StartsWith(IdString(r.id), last.id_prefix)) => ~last.ok

----------------------------------------------------------------------------
(* Claims on SpecAssoc.                                                    *)

\* C13: no record is associated with itself: after the auto-link of process
\* and after any associate(other_id) calls, with other_id the record's own id
\* or another one, r.id is not an element of r.associations.
C13_NoSelfAssociation ==
    /\ last.op \in {"process", "new", "associate"} =>
           last.item.id \notin Range(last.item.associations)
    /\ \A r \in Range(working) \cup episodic \cup semantic \cup procedural :
           r.id \notin Range(r.associations)

\* What does hold: the item process hands to the tiers is never linked to
\* itself, and associate keeps the associations free of duplicates.
AutoLinkNoSelf ==
    /\ last.op = "process" => last.item.id \notin Range(last.item.associations)
    /\ last.op \in {"process", "new", "associate"} =>
           \A i, j \in DOMAIN last.item.associations :
               last.item.associations[i] = last.item.associations[j] => i = j

----------------------------------------------------------------------------
(* Claims on SpecStorage.                                                  *)

\* C15: an item saved to a Storage and read back by its id is equal to the
\* item saved in every field: id, content, context, tier, emotion,
\* created_at, last_accessed, access_count, strength, associations.
C15_SaveLoadRoundTrip ==
    (last.op = "save" /\ last.ok) =>
        \E r \in table : r.id = last.item.id /\ r = last.item

\* What does hold: the row read back equals the item saved in every field
\* but context and associations; a context other than Some("") is read back
\* as it was, and the associations are read back empty.
SaveLoadButLinks ==
    (last.op = "save" /\ last.ok) =>
        \E r \in table :
            /\ r.id = last.item.id
            /\ [r EXCEPT !.associations = last.item.associations,
                         !.context = last.item.context] = last.item
            /\ r.associations = <<>>
            /\ last.item.context # << <<>> >> => r.context = last.item.context

\* C16: when save, update or delete returns Ok its mutation has been flushed:
\* the saved row is among the flushed rows, the deleted id is not.
C16_MutationsFlushed ==
    /\ (last.op = "save" /\ last.ok) => Row(last.item) \in durable
    /\ (last.op = "delete" /\ last.ok) => last.id \notin RowIds(durable)

\* What does hold: a save that returns Ok has flushed every row of the table.
SaveFlushesAll == (last.op = "save" /\ last.ok) => durable = table

----------------------------------------------------------------------------
(* Claims on SpecInverted.                                                 *)

\* the ids that are documents of the index, and the ids it holds anywhere
DocIds(docs) == { d[1] : d \in docs }
HeldIds(index, docs) == DocIds(docs) \cup { p[2] : p \in index }

\* C17: add(id, c) followed by remove(id) leaves the index as it was before
\* the add: the same keyword-to-ids map and the same documents (here for an
\* id that was not a document of the index before the add).
C17_AddRemoveRestores ==
    (last.op = "remove" /\ last.prev.op = "add" /\ last.prev.id = last.id
        /\ last.id \notin DocIds(last.prev.docs)) =>
        /\ keyword_index = last.prev.index
        /\ doc_keywords = last.prev.docs

\* What does hold: add(id, c) followed by remove(id) restores the index when
\* the index held id nowhere before the add, neither as a document nor in
\* the id set of a keyword.
AddRemoveRestoresAbsent ==
    (last.op = "remove" /\ last.prev.op = "add" /\ last.prev.id = last.id
        /\ last.id \notin HeldIds(last.prev.index, last.prev.docs)) =>
        /\ keyword_index = last.prev.index
        /\ doc_keywords = last.prev.docs

C19_RankedDeterministic ==
    last.op = "search_ranked" =>
        \A order \in Orders(RankedIds(keyword_index, last.query)) :
            SearchRanked(keyword_index, last.query, last.limit, order) = last.out

----------------------------------------------------------------------------
(* Claims on SpecBloom.                                                    *)

\* C20: the filter has no false negatives: every item added by add, here or
\* in a filter merged in by a successful merge, and not followed by clear is
\* reported by contains, and every string added by add_str by contains_str,
\* after any further adds and merges.
C20_NoFalseNegatives ==
    /\ \A x \in BloomLog.added : BloomContains(bloom_bits, x)
    /\ \A x \in BloomLog.added_str : BloomContainsStr(bloom_bits, x)

\* C20 witness: after a successful merge the filter reports an item it was
\* never given itself, next to items added to it directly.
C20_Witness ==
    /\ last.op = "bloom_merge" /\ last.ok
    /\ bloom_count >= 1
    /\ T_abDcd \in last.added_str
    /\ BloomContainsStr(bloom_bits, T_abDcd)
    /\ ~BloomContains(bloom_bits, T_AB)

\* C21 (as claimed): in a CountingBloomFilter a remove that directly follows
\* an add of the same item leaves every counter at the value it had before
\* the add, whatever the counters were; on an empty filter the item is then
\* not contained.
C21_AddRemoveRestores ==
    (last.op = "counting_remove" /\ last.prev # <<>>) =>
        /\ counters = last.prev[1]
        /\ (DOMAIN last.prev[1] = {}) => ~CountingContains(counters, last.item)

\* The round trip does restore the counters when none of the item's counters
\* was at u8::MAX before the add.
AddRemoveRestoresBelowMax ==
    (/\ last.op = "counting_remove" /\ last.prev # <<>>
     /\ \A i \in 1..CountingNumHashes :
            CounterAt(last.prev[1], CountingHashes(ToLowercase(last.item))[i]) < U8Max)
        => counters = last.prev[1]

\* the query of the last recall has no token in the keyword index and no word
\* in the bloom filter, and the Brain holds a record
ScreenedRecall ==
    /\ last.op = "recall"
    /\ working # <<>> \/ episodic \cup semantic \cup procedural # {}
    /\ \A tok \in Range(Tokenize(last.query)) : Postings(keyword_index, tok) = {}
    /\ \A i \in DOMAIN BloomWords(last.query) :
           ~BloomContainsStr(bloom_bits, BloomWords(last.query)[i])

\* C22 (as claimed): a recall on a non-empty store with a query that the
\* keyword index and the bloom filter both report absent returns no record
\* and searches no long-term tier.
C22_ScreenedRecallScansNothing ==
    ScreenedRecall => last.out = <<>> /\ last.searches = <<>>

\* C22 (amended): such a recall makes no search for a keyword and no fetch of
\* an indexed id; its one search of a long-term tier is the substring search
\* of the semantic tier with the whole query, and every record it returns
\* contains the whole query in its content or context.
C22_ScreenedRecallSearchesWholeQueryOnly ==
    ScreenedRecall =>
        /\ last.searches = << <<"semantic", last.query>> >>
        /\ \A i \in DOMAIN last.out : MatchesQuery(last.out[i], last.query)

\* the bloom filter screens a keyword out: the query has a keyword, the
\* fallback is reached, and nothing is returned
C22_Witness ==
    /\ ScreenedRecall
    /\ RecallKeywords(last.query) # <<>>
    /\ last.limit > 0
    /\ last.out = <<>>

\* the texts of the last batch that were not in the cache before it
BatchUncached ==
    { t \in Range(last.texts) : LruPeek(last.before.entries, HashText(t)) = <<>> }

\* how often text t is in the sequence
Occurrences(seq, t) == Cardinality({ i \in DOMAIN seq : seq[i] = t })

\* C23 (as claimed): embed_batch hands a text that is not cached to the inner
\* embedder once, however often it occurs in the batch, and counts one miss
\* for it; every position gets the vector of its text; afterwards the cache
\* holds one entry per distinct text of the batch (when the batch has no more
\* distinct texts than the cache has room for).
C23_BatchDedupes ==
    last.op = "embed_batch" =>
        /\ \A t \in BatchUncached : Occurrences(last.computed, t) = 1
        /\ cache_misses = last.missed + Cardinality(BatchUncached)
        /\ \A i \in DOMAIN last.texts : last.out[i] = InnerEmbed(last.texts[i])
        /\ Cardinality(Range(last.texts)) <= cache.cap =>
               \A t \in Range(last.texts) :
                   Cardinality({ i \in DOMAIN cache.entries :
                                    cache.entries[i][1] = HashText(t) }) = 1

\* What embed_batch does: one inner call and one miss per uncached position,
\* the right vector at every position, one entry per distinct text.
BatchComputesPerPosition ==
    last.op = "embed_batch" =>
        /\ \A t \in BatchUncached :
               Occurrences(last.computed, t) = Occurrences(last.texts, t)
        /\ cache_misses = last.missed + Len(last.computed)
        /\ \A i \in DOMAIN last.texts : last.out[i] = InnerEmbed(last.texts[i])
        /\ Cardinality(Range(last.texts)) <= cache.cap =>
               \A t \in Range(last.texts) :
                   Cardinality({ i \in DOMAIN cache.entries :
                                    cache.entries[i][1] = HashText(t) }) = 1

\* C24: on an HnswIndex, after any sequence of add, add_batch, remove (and
\* clear), stats().count is the number of distinct ids added with a vector of
\* the index dimension and not removed since; an add with another dimension
\* returns an error and changes nothing; an add of an indexed id changes
\* nothing; a search returns no id that was removed and not added again.
C24_CountIsLiveIds ==
    /\ HnswCount(id_map) = Cardinality(HnswLive)
    /\ { e[2] : e \in id_map } = HnswLive
    /\ (last.op = "hnsw_add" /\ Len(last.embedding) # dimension) =>
           ~last.ok /\ HnswState = last.before
    /\ (last.op = "hnsw_add" /\ ContainsKey(last.before.uuid_to_idx, last.id)) =>
           HnswState = last.before
    /\ last.op = "hnsw_search" =>
           \A i \in DOMAIN last.results : last.results[i][1] \in HnswLive

\* a search for the vector of a removed id, on a graph that still holds that
\* vector, returns another id
C24_Witness ==
    /\ last.op = "hnsw_search"
    /\ last.results # <<>>
    /\ \E idx \in 0..(Len(hnsw) - 1) :
           /\ ~ContainsKey(id_map, idx)
           /\ hnsw[idx + 1] = last.query
    /\ HnswCount(id_map) = 1

\* C25: right after a Brain is opened on a database that holds persisted
\* records, every token of the content of every persisted record is in the
\* bloom filter and leads to the record's id in the keyword index.
C25_OpenRebuildsIndexes ==
    last.op = "open" =>
        \A r \in episodic \cup semantic \cup procedural :
            \A t \in Range(Tokenize(r.content)) :
                /\ BloomContainsStr(bloom_bits, t)
                /\ r.id \in Postings(keyword_index, t)

\* What opening does: the keyword index and the bloom filter are empty,
\* whatever the tables hold.
OpenLeavesIndexesEmpty ==
    last.op = "open" =>
        keyword_index = {} /\ doc_keywords = {} /\ bloom_bits = {} /\ bloom_count = 0

\* the markers of the classifier, on a lower-cased content
ProceduralMarker(c) ==
    \/ StrContains(c, <<"w","h","e","n"," ">>)
           /\ StrContains(c, <<" ","t","h","e","n"," ">>)
    \/ \E m \in {<<"p","a","t","t","e","r","n",":">>, <<"h","o","w"," ","t","o"," ">>,
                 <<"a","l","w","a","y","s"," ">>, <<"n","e","v","e","r"," ">>} :
           StrContains(c, m)
SemanticMarker(c) ==
    \E m \in {<<" ","i","s"," ">>, <<" ","a","r","e"," ">>,
              <<" ","m","e","a","n","s"," ">>,
              <<"d","e","f","i","n","i","t","i","o","n",":">>,
              <<"f","a","c","t",":">>} :
        StrContains(c, m)

\* the tier process chose for its record follows the rules in priority order
ClassifiedByPriority ==
    LET c == ToLowercase(last.item.content)
        type == last.item.memory_type
    IN  /\ type \in {"Procedural", "Semantic", "Episodic"}
        /\ ProceduralMarker(c) => type = "Procedural"
        /\ (~ProceduralMarker(c) /\ SemanticMarker(c)) => type = "Semantic"
        /\ (~ProceduralMarker(c) /\ ~SemanticMarker(c)) => type = "Episodic"

\* the rows of the tier of that name
TierRows(type) ==
    IF type = "Procedural" THEN procedural
    ELSE IF type = "Semantic" THEN semantic ELSE episodic

\* C26 (as claimed): classify returns Procedural, Semantic or Episodic, never
\* Working, by the rules in priority order (procedural markers, then semantic
\* markers, then Episodic), and a process that returns Ok has persisted its
\* record in exactly that tier.
C26_ClassifiedAndPersisted ==
    (last.op = "process" /\ last.ok) =>
        /\ ClassifiedByPriority
        /\ \A type \in {"Procedural", "Semantic", "Episodic"} :
               last.item.id \in RowIds(TierRows(type))
                   <=> type = last.item.memory_type

\* C26 (amended): the classification is as claimed; a process that returns Ok
\* has persisted its record in the tier chosen and in no other, except that a
\* Semantic record is persisted in no tier when the semantic tier held a row
\* whose content contains, or is contained in, the record's content.
C26_ClassifiedAndPersistedUnlessDeduped ==
    (last.op = "process" /\ last.ok) =>
        /\ ClassifiedByPriority
        /\ \A type \in {"Procedural", "Semantic", "Episodic"} :
               last.item.id \in RowIds(TierRows(type)) => type = last.item.memory_type
        /\ \/ last.item.id \in RowIds(TierRows(last.item.memory_type))
           \/ /\ last.item.memory_type = "Semantic"
              /\ SimilarRows(last.before, last.item.content) # {}

\* a content with a procedural and a semantic marker, in upper case or with a
\* context, went to the procedural tier
C26_Witness ==
    /\ last.op = "process" /\ last.ok
    /\ ProceduralMarker(ToLowercase(last.item.content))
    /\ SemanticMarker(ToLowercase(last.item.content))
    /\ last.item.context # <<>>
    /\ last.item.id \in RowIds(procedural)

\* C27: when the persist step of process fails, process returns the error
\* and the record is in no long-term tier.
C27_FailedIngestNotPersisted ==
    (last.op = "process" /\ ~last.ok) =>
        last.item.id \notin RowIds(episodic \cup semantic \cup procedural)

\* A rebuild_indexes() that follows a failed process whose record is in no
\* tier leaves the record's id in neither map of the keyword index, and the
\* bloom filter holds only words of persisted rows.
FailedInsertReconciled ==
    [][(/\ last.op = "process" /\ ~last.ok
        /\ last.item.id \notin RowIds(episodic \cup semantic \cup procedural)
        /\ last'.op = "rebuild")
       => /\ last.item.id \notin HeldIds(keyword_index', doc_keywords')
          /\ bloom_bits' \subseteq
                 BloomAddRows({}, episodic \cup semantic \cup procedural)]_vars

\* C28: whatever the interleaving of the lock acquisitions of concurrent add,
\* add_batch, remove, clear, search and stats calls on one HnswIndex, no two
\* threads ever wait for each other.
C28_NoDeadlock ==
    ~\E t \in 1..NumThreads, u \in 1..NumThreads : WaitsFor(t, u) /\ WaitsFor(u, t)

\* Calls that take their guards in the order hnsw, id_map, uuid_to_idx,
\* next_idx (all but remove) never wait for each other.
NoDeadlockWithoutRemove ==
    ~\E t \in 1..NumThreads, u \in 1..NumThreads :
        /\ WaitsFor(t, u) /\ WaitsFor(u, t)
        /\ pc[t].op # "remove" /\ pc[u].op # "remove"

\* C29: after any sequence of add, add_batch, update, remove and clear on an
\* InvertedIndex the two maps agree: id is in index[t] exactly when t is in
\* doc_keywords[id] (so no keyword is left with an id set that no document
\* accounts for).
C29_MapsAgree ==
    keyword_index = { <<d[2], d[1]>> : d \in doc_keywords }

\* One direction holds: every keyword recorded for a document has the
\* document's id in its id set.
DocKeywordsIndexed ==
    \A d \in doc_keywords : <<d[2], d[1]>> \in keyword_index

\* The ids held by either map of the keyword index.
IndexedIds ==
    { p[2] : p \in keyword_index } \cup { d[1] : d \in doc_keywords }

\* The ids of the records in working memory or in a long-term tier.
LiveRecordIds ==
    { item.id : item \in Range(working) }
        \cup { row.id : row \in episodic \cup semantic \cup procedural }

\* C30: after any sequence of process, sleep and update_strength every id
\* held by the keyword index is the id of a record in working memory or in a
\* long-term tier.
C30_IndexedIdsLive ==
    IndexedIds \subseteq LiveRecordIds

====
